---- MODULE Spec2Model ----
(***************************************************************************)
(* Supply planning and procurement decision engine.                        *)
(*                                                                         *)
(* Spec      InventorySimulationAgent.simulate for one (facility,item)     *)
(*           group, one action per iteration of the daily loop, fed by     *)
(*           reorder parameters that are either given or computed by       *)
(*           ReorderAgent.compute_reorder_point.                           *)
(* SpecRisk  InventoryRiskAgent.score applied to one row.                  *)
(* SpecProc  ProcurementOptimizer.optimize, ShortageSourcingEngine         *)
(*           .is_shortage and .emergency_plan, one action per call.  The   *)
(*           MILP solver is the choice of a basic optimal assignment.      *)
(*                                                                         *)
(* Quantities are integers counting 1/300 of a unit, so that a forecast    *)
(* "can be fractional" and round(x, 2) is the rounding to the nearest      *)
(* multiple of 3, never at a tie.  Lead times count tenths of a day, days  *)
(* of cover count hundredths of a day.  A missing value (NaN, None, NaT)   *)
(* is the empty set, a present value v is {v}.                             *)
(***************************************************************************)
EXTENDS Integers, Sequences, FiniteSets, TLC

VARIABLES
    forecast_df,      \* input: [pattern, lead_time, gap] of the group
    inventory_df,     \* input: starting stock cell of the group
    reorder_df,       \* input: [reorder_point, avg_daily_demand, lead_time]
    min_order_qty,    \* input: the min_order_qty argument
    pc,               \* "simulate" | "done" | "score" | "scored" | "call" |
                      \* "optimized" | "evaluated" | "planned" | "reorder" |
                      \* "reordered" | "rank" | "ranked" | "batch" |
                      \* "batch_done" | "fefo" | "fefo_done" | "allocate" |
                      \* "allocated"
    t,                \* number of iterations of the daily loop done so far
    on_hand,          \* local on_hand
    on_order,         \* local on_order: sequence of <<arrival_date, qty>>
    recv_qty,         \* local recv_qty of the last iteration (0 when none)
    outstanding,      \* local outstanding of the last iteration
    inv_position,     \* local inv_position of the last iteration
    row,              \* the row appended by the last iteration
    placed_total,     \* sum of every quantity appended to on_order so far
    received_total,   \* sum of every recv_qty added to on_hand so far
    risk_row,         \* InventoryRiskAgent: the row being classified
    inventory_risk,   \* InventoryRiskAgent: the row's inventory_risk cell
    supplier_pool,    \* the rows the repository holds for the context
    suppliers_df,     \* optimize: the suppliers_df argument
    required_qty,     \* optimize: the required_qty argument
    pct_at_risk_90,   \* optimize: the pct_at_risk_90 argument, in hundredths
    config,           \* optimize: the config argument
    ctx,              \* ShortageSourcingEngine: the ShortageContext
    solver,           \* optimize: what model.solve left in status, x, y
    result,           \* what the call returned or raised
    calls,            \* emergency_plan: the collaborators called, in order
    args,             \* a single call: the caller's argument values, now
    called_with,      \* a single call: the argument values it was given
    ret,              \* a single call: what it returned or raised
    prev,             \* the call before it: [called_with, ret], or none
    loop,             \* simulate on a batch: the loop's locals and rows
    tasks             \* simulate on one key each: the locals and rows by key

vars == <<forecast_df, inventory_df, reorder_df, min_order_qty, pc, t, on_hand,
          on_order, recv_qty, outstanding, inv_position, row, placed_total,
          received_total, risk_row,
          inventory_risk, supplier_pool, suppliers_df, required_qty, pct_at_risk_90, config,
          ctx, solver, result, calls, args, called_with, ret, prev,
          loop, tasks>>

simVars == <<forecast_df, inventory_df, reorder_df, min_order_qty, t, on_hand,
             on_order, recv_qty, outstanding, inv_position, row, placed_total,
             received_total>>

riskVars == <<risk_row, inventory_risk>>

callVars == <<args, called_with, ret, prev, loop, tasks>>

procVars == <<supplier_pool, suppliers_df, required_qty, pct_at_risk_90, config, ctx, solver,
              result, calls>>

-----------------------------------------------------------------------------
(* Units and missing values *)

Unit == 3 * 100

NaN == {}

NaT == {}

IsNaN(x) == x = {}

Val(x) == CHOOSE v \in x : TRUE

Max(a, b) == IF a >= b THEN a ELSE b

\* round(x, 2) of a quantity: the nearest multiple of 0.01 = 3/300.
Round2(x) ==
    CASE x % 3 = 0 -> x
      [] x % 3 = 1 -> x - 1
      [] OTHER     -> x + 1

\* round(x) of a value in tenths, to an integer: Python rounds a tie to even.
RoundHalfEven(tenths) ==
    LET q == tenths \div 10
        r == tenths % 10
    IN  CASE r < 5 -> q
          [] r > 5 -> q + 1
          [] OTHER -> IF q % 2 = 0 THEN q ELSE q + 1

-----------------------------------------------------------------------------
(* Bounds *)

\* Number of days in a demand series.
Horizon == 30

-----------------------------------------------------------------------------
(* ReorderAgent.compute_reorder_point, for one (facility,item) group *)

RECURSIVE SeqSum(_)
SeqSum(s) == IF s = <<>> THEN 0 ELSE Head(s) + SeqSum(Tail(s))

RECURSIVE SeqSumSq(_)
SeqSumSq(s) == IF s = <<>> THEN 0 ELSE Head(s) * Head(s) + SeqSumSq(Tail(s))

\* Largest r with r * r <= n.
ISqrt(n) == CHOOSE r \in 0..n : r * r <= n /\ (r + 1) * (r + 1) > n

\* service_level_z = 1.65, in hundredths.
service_level_z == 165

\* The non-missing cells of a column, in order (pandas mean and std skip NaN).
RECURSIVE DropNa(_)
DropNa(s) ==
    IF s = <<>> THEN <<>>
    ELSE IF IsNaN(Head(s)) THEN DropNa(Tail(s))
    ELSE <<Val(Head(s))>> \o DropNa(Tail(s))

\* n * n * variance(ddof = 0) of the values, from the deviations to the first.
ScaledVariance(xs) ==
    LET n  == Len(xs)
        ds == [i \in 1..n |-> xs[i] - xs[1]]
    IN  n * SeqSumSq(ds) - SeqSum(ds) * SeqSum(ds)

SafetyStockOverZ(xs, lead_time, z) ==
    IF lead_time < 0 THEN NaN
    ELSE LET n == Len(xs)
         IN  {ISqrt((ScaledVariance(xs) * lead_time * 1000)
                        \div (n * n * z * z))}

\* safety_stock = z * std_demand * lead_time ** 0.5; the square root is taken
\* to the 1/300 below, which is exact when the demand is constant (std 0.0).
\* A negative lead time makes lead_time ** 0.5 NaN.
SafetyStock(xs, lead_time, z) ==
    IF lead_time < 0 THEN NaN
    ELSE LET n == Len(xs)
         IN  {ISqrt((z * z * ScaledVariance(xs) * lead_time)
                        \div (n * n * 100000))}

\* The row the loop appends for the group, or no row at all (the `continue`)
\* when the group's lead time is missing.  demand: the forecast column;
\* lead_time: the mean of the merged lead_time_days column, in tenths.
compute_reorder_point(demand, lead_time, z) ==
    LET xs == DropNa(demand)
        n  == Len(xs)
    IN  IF IsNaN(lead_time) THEN [skipped |-> TRUE, reorder_point |-> NaN,
                                  avg_daily_demand |-> NaN, lead_time_days |-> NaN,
                                  safety_stock |-> NaN]
        ELSE IF n = 0 THEN [skipped |-> FALSE, reorder_point |-> NaN,
                            avg_daily_demand |-> NaN,
                            lead_time_days |-> lead_time, safety_stock |-> NaN]
        ELSE LET lt == Val(lead_time)
                 ss == SafetyStock(xs, lt, z)
             IN  [skipped |-> FALSE,
                  avg_daily_demand |-> {Round2(SeqSum(xs) \div n)},
                  lead_time_days |-> {lt},
                  safety_stock |-> IF IsNaN(ss) THEN NaN ELSE {Round2(Val(ss))},
                  reorder_point |->
                      IF IsNaN(ss) THEN NaN
                      ELSE {Round2((SeqSum(xs) * lt) \div (10 * n) + Val(ss))}]

-----------------------------------------------------------------------------
(* InventorySimulationAgent.simulate: normalisation and joins *)

\* The default lead time 7.0, in tenths of a day.
DefaultLeadTime == 7 * 10

\* A column of a table: absent, or present with a (possibly missing) cell.
NoColumn == [col |-> FALSE, v |-> NaN]

Column(cell) == [col |-> TRUE, v |-> cell]

\* The lead_time_days cell of a merged forecast row.  Both tables carrying
\* the column, the merge names them lead_time_days_x and lead_time_days_y, so
\* that no column lead_time_days is left and the default is written.
ResolveLeadTime(f_lt, r_lt) ==
    IF f_lt.col /\ r_lt.col THEN DefaultLeadTime
    ELSE IF r_lt.col THEN (IF IsNaN(r_lt.v) THEN DefaultLeadTime ELSE Val(r_lt.v))
    ELSE IF f_lt.col THEN (IF IsNaN(f_lt.v) THEN DefaultLeadTime ELSE Val(f_lt.v))
    ELSE DefaultLeadTime

\* lt_days = int(max(0, round(float(lt))))
LtDaysUnclamped(lt) == RoundHalfEven(lt)

LtDays(lt) == Max(0, RoundHalfEven(lt))

\* The stock_on_hand cell after fillna(0.0).
StartingStock(cell) == IF IsNaN(cell) THEN 0 ELSE Val(cell)

\* Mutant: a missing parameter filled with 0.0.
GroupParamZeroFilled(cell) == IF IsNaN(cell) THEN {0} ELSE {Val(cell)}

\* rp / avgd of a group: the first non-missing cell of the column, else NaN.
GroupParam(cell) == IF IsNaN(cell) THEN NaN ELSE {Val(cell)}

\* can_order
CanOrder(rp, avgd) == ~IsNaN(rp) /\ ~IsNaN(avgd) /\ Val(avgd) > 0

\* The order_up_to_days argument (its default).
order_up_to_days == 14

-----------------------------------------------------------------------------
(* InventorySimulationAgent.simulate: the steps of one day *)

RECURSIVE SumQty(_)
SumQty(orders) ==
    IF orders = <<>> THEN 0 ELSE Head(orders)[2] + SumQty(Tail(orders))

\* arriving = [x for x in on_order if x[0] <= d]
Arriving(orders, d) == SelectSeq(orders, LAMBDA x : x[1] <= d)

\* Mutant: the orders due today stay on order.
StillOnOrderInclusive(orders, d) == SelectSeq(orders, LAMBDA x : x[1] >= d)

\* on_order = [x for x in on_order if x[0] > d]
StillOnOrder(orders, d) == SelectSeq(orders, LAMBDA x : x[1] > d)

\* Mutant: the stock is not floored at zero.
ReceiveThenConsumeNoFloor(stock, recv, demand) == (stock + recv) - demand

\* Mutant: the demand is consumed before the receipt is added.
ConsumeThenReceive(stock, recv, demand) == Max(0, stock - demand) + recv

\* on_hand after step 1 (receive) and step 2 (consume), in that order.
ReceiveThenConsume(stock, recv, demand) == Max(0, (stock + recv) - demand)

\* Mutant: the position leaves the outstanding orders out.
InvPositionOnHandOnly(stock, out) == stock

\* inv_position = on_hand + outstanding
InvPosition(stock, out) == stock + out

\* Mutant: the reorder test is strict.
ReorderNowStrict(can_order, position, rp) ==
    can_order /\ position < Val(rp)

\* The reorder test of step 4.
ReorderNow(can_order, position, rp) ==
    can_order /\ position <= Val(rp)

\* Mutant: the order covers one day of demand.
OrderQtyOneDay(minq, avgd) == Max(minq, avgd)

\* order_qty = max(min_order_qty, avgd * float(order_up_to_days))
OrderQty(minq, avgd) == Max(minq, avgd * order_up_to_days)

\* Mutant: the divisor is max(avgd, demand, 1e-6).
DenomMax(avgd, demand) ==
    LET m == Max(IF IsNaN(avgd) THEN 0 ELSE Val(avgd), demand)
    IN  IF m > 0 THEN [eps |-> FALSE, v |-> m] ELSE [eps |-> TRUE, v |-> 0]

\* denom of step 5: avgd when it is known and positive, else max(demand, 1e-6).
\* eps marks the divisor 1e-6.
Denom(avgd, demand) ==
    IF ~IsNaN(avgd) /\ Val(avgd) > 0 THEN [eps |-> FALSE, v |-> Val(avgd)]
    ELSE IF demand > 0 THEN [eps |-> FALSE, v |-> demand]
    ELSE [eps |-> TRUE, v |-> 0]

\* round(on_hand / denom, 2) in hundredths of a day: the values the float
\* quotient can round to (both neighbours at an exact tie).  The quotient by
\* 1e-6 is kept as its numerator.
DaysOfCover(stock, denom) ==
    IF denom.eps THEN {[eps |-> TRUE, v |-> stock]}
    ELSE LET q == (100 * stock) \div denom.v
             r == (100 * stock) % denom.v
         IN  CASE 2 * r < denom.v -> {[eps |-> FALSE, v |-> q]}
               [] 2 * r > denom.v -> {[eps |-> FALSE, v |-> q + 1]}
               [] OTHER -> {[eps |-> FALSE, v |-> q], [eps |-> FALSE, v |-> q + 1]}

-----------------------------------------------------------------------------
(* Inputs of the simulation *)

\* Demand series repeat a two-day pattern of forecast cells.
DemandPatterns ==
    { <<{100 * Unit}, {100 * Unit}>>,
      <<{0}, {0}>>,
      <<{1}, {1}>>,
      <<{40 * Unit + 2}, {40 * Unit + 2}>>,
      <<{100 * Unit}, {250 * Unit + 1}>>,
      <<{250 * Unit + 1}, {0}>>,
      <<{}, {100 * Unit}>>,
      <<{100 * Unit}, {0}>> }

\* The forecast column of the group: Horizon cells.
Series(pattern) == [i \in 1..Horizon |-> pattern[((i - 1) % 2) + 1]]

StockCells == { NaN, {500 * Unit}, {30 * Unit + 1}, {0 - 5 * Unit} }

\* lead_time_days of forecast_df: the column may be absent; one cell per key.
ForecastLeadTimes ==
    { NoColumn, Column(NaN), Column({30}), Column({25}), Column({70}) }

\* Days between two consecutive dates of the series.
Gaps == {1, 2}

MinOrderQtys == { 0, 2000 * Unit + 1 }

\* The reorder_df row the left merge attaches to the group when reorder_df
\* has no row for the key.
NoReorderRow ==
    [reorder_point |-> NaN, avg_daily_demand |-> NaN, lead_time |-> Column(NaN)]

GivenReorderRows ==
    { NoReorderRow,
      [reorder_point |-> {700 * Unit}, avg_daily_demand |-> {100 * Unit},
       lead_time |-> NoColumn],
      [reorder_point |-> {0}, avg_daily_demand |-> {0},
       lead_time |-> Column({70})],
      [reorder_point |-> NaN, avg_daily_demand |-> {100 * Unit},
       lead_time |-> NoColumn],
      [reorder_point |-> {700 * Unit}, avg_daily_demand |-> NaN,
       lead_time |-> Column({25})],
      [reorder_point |-> {120 * Unit + 1}, avg_daily_demand |-> {40 * Unit + 2},
       lead_time |-> Column({35})],
      [reorder_point |-> {300 * Unit}, avg_daily_demand |-> {100 * Unit},
       lead_time |-> Column({0 - 14})],
      [reorder_point |-> {2000 * Unit}, avg_daily_demand |-> {40 * Unit + 2},
       lead_time |-> Column({30})] }

\* The reorder_df row made of a ReorderAgent result.
AsReorderRow(res) ==
    IF res.skipped THEN NoReorderRow
    ELSE [reorder_point |-> res.reorder_point,
          avg_daily_demand |-> res.avg_daily_demand,
          lead_time |-> Column(res.lead_time_days)]

\* reorder_df is given, or computed by ReorderAgent from the same series with
\* a lead time of 7.0 days (for a constant series, whose std is exactly 0.0).
ReorderRowsFor(pattern) ==
    GivenReorderRows \cup
        (IF pattern[1] = pattern[2]
         THEN {AsReorderRow(compute_reorder_point(Series(pattern), {70},
                                                  service_level_z))}
         ELSE {})

-----------------------------------------------------------------------------
(* InventorySimulationAgent.simulate: the loop *)

\* ds of the i-th row of the group, i = 0, 1, ... (days since the first date).
DateOf(i) == i * forecast_df.gap

\* demand = float(cell) if pd.notna(cell) else 0.0
DemandOf(cell) == IF IsNaN(cell) THEN 0 ELSE Val(cell)

BlankRow ==
    [ds |-> 0, forecast |-> 0, stock_on_hand |-> 0, inventory_position |-> 0,
     days_of_cover |-> [eps |-> TRUE, v |-> 0], reorder_point |-> NaN,
     lead_time_days |-> 0, reorder_now |-> FALSE, order_qty |-> 0,
     order_arrival_ds |-> NaT, outstanding_orders_qty |-> 0]

InitSim ==
    /\ \E pattern \in DemandPatterns, lt \in ForecastLeadTimes, gap \in Gaps :
         /\ forecast_df = [pattern |-> pattern, lead_time |-> lt, gap |-> gap]
         /\ reorder_df \in ReorderRowsFor(pattern)
    /\ inventory_df \in StockCells
    /\ min_order_qty \in MinOrderQtys
    /\ t = 0
    /\ on_hand = StartingStock(inventory_df)
    /\ on_order = <<>>
    /\ recv_qty = 0
    /\ outstanding = 0
    /\ inv_position = 0
    /\ row = BlankRow
    /\ placed_total = 0
    /\ received_total = 0

\* One iteration of `for t in range(len(g))`: receive, consume, position,
\* reorder decision, days of cover, and the row appended.
SimulateDay ==
    /\ pc = "simulate"
    /\ t < Horizon
    /\ LET d           == DateOf(t)
           demand      == DemandOf(Series(forecast_df.pattern)[t + 1])
           lt          == ResolveLeadTime(forecast_df.lead_time, reorder_df.lead_time)
           lt_days     == LtDays(lt)
           rp          == GroupParam(reorder_df.reorder_point)
           avgd        == GroupParam(reorder_df.avg_daily_demand)
           can_order   == CanOrder(rp, avgd)
           recv        == SumQty(Arriving(on_order, d))
           remaining   == StillOnOrder(on_order, d)
           stock       == ReceiveThenConsume(on_hand, recv, demand)
           out         == SumQty(remaining)
           inv_pos     == InvPosition(stock, out)
           reorder_now == ReorderNow(can_order, inv_pos, rp)
           order_qty   == IF reorder_now THEN OrderQty(min_order_qty, Val(avgd)) ELSE 0
           arrival     == IF reorder_now THEN {d + lt_days} ELSE NaT
           placed      == reorder_now /\ order_qty > 0
       IN  /\ on_hand' = stock
           /\ recv_qty' = recv
           /\ outstanding' = out
           /\ inv_position' = inv_pos
           /\ on_order' = IF placed
                          THEN Append(remaining, <<d + lt_days, order_qty>>)
                          ELSE remaining
           /\ placed_total' = placed_total + (IF placed THEN order_qty ELSE 0)
           /\ received_total' = received_total + recv
           /\ \E doc \in DaysOfCover(stock, Denom(avgd, demand)) :
                row' = [ds |-> d,
                        forecast |-> demand,
                        stock_on_hand |-> Round2(stock),
                        inventory_position |-> Round2(inv_pos),
                        days_of_cover |-> doc,
                        reorder_point |-> IF IsNaN(rp) THEN NaN ELSE {Round2(Val(rp))},
                        lead_time_days |-> lt_days,
                        reorder_now |-> reorder_now,
                        order_qty |-> Round2(order_qty),
                        order_arrival_ds |-> arrival,
                        outstanding_orders_qty |-> Round2(out)]
    /\ t' = t + 1
    /\ UNCHANGED <<forecast_df, inventory_df, reorder_df, min_order_qty, pc>>
    /\ UNCHANGED riskVars
    /\ UNCHANGED procVars
    /\ UNCHANGED callVars

\* return pd.DataFrame(rows)
ReturnRows ==
    /\ pc = "simulate"
    /\ t = Horizon
    /\ pc' = "done"
    /\ UNCHANGED simVars
    /\ UNCHANGED riskVars
    /\ UNCHANGED procVars
    /\ UNCHANGED callVars

\* No single call is followed: its variables stay empty.
IdleCall ==
    /\ args = NaN
    /\ called_with = NaN
    /\ ret = NaN
    /\ prev = NaN
    /\ loop = NaN
    /\ tasks = NaN

\* No procurement call is made: its variables stay empty.
IdleProc ==
    /\ supplier_pool = <<>>
    /\ suppliers_df = <<>>
    /\ required_qty = 0
    /\ pct_at_risk_90 = 0
    /\ config = NaN
    /\ ctx = NaN
    /\ solver = NaN
    /\ result = NaN
    /\ calls = <<>>

Init ==
    /\ pc = "simulate"
    /\ InitSim
    /\ risk_row = BlankRow
    /\ inventory_risk = NaN
    /\ IdleProc
    /\ IdleCall

Next == SimulateDay \/ ReturnRows

Spec == Init /\ [][Next]_vars

-----------------------------------------------------------------------------
(* InventoryRiskAgent.score, for one row *)

\* str(x).strip().lower() of the volatility_class texts of the model.
StripLower(text) ==
    CASE text = " Erratic " -> "erratic"
      [] text = "SEASONAL"  -> "seasonal"
      [] text = "Stable"    -> "stable"
      [] OTHER              -> text

\* vc: a column score() had to add holds None ("none"), a missing cell of a
\* merged column is NaN ("nan").
\* Mutant: a missing volatility class is read as the riskiest class.
VolatilityTextMissingErratic(column) ==
    IF ~column.col THEN "erratic"
    ELSE IF IsNaN(column.v) THEN "erratic"
    ELSE StripLower(Val(column.v))

VolatilityText(column) ==
    IF ~column.col THEN "none"
    ELSE IF IsNaN(column.v) THEN "nan"
    ELSE StripLower(Val(column.v))

\* Mutant: the medium rule is tested before the erratic rule.
classifyErraticLate(r) ==
    LET vc == VolatilityText(r.volatility_class)
    IN  IF IsNaN(r.days_of_cover) THEN "HIGH"
        ELSE IF ~IsNaN(r.reorder_now) /\ Val(r.reorder_now) THEN "HIGH"
        ELSE IF Val(r.days_of_cover) <= 300 THEN "HIGH"
        ELSE IF Val(r.days_of_cover) <= 700 \/ vc = "seasonal" THEN "MEDIUM"
        ELSE IF vc = "erratic" THEN "HIGH"
        ELSE "LOW"

\* classify(row); days_of_cover in hundredths of a day.
classify(r) ==
    LET vc == VolatilityText(r.volatility_class)
    IN  IF IsNaN(r.days_of_cover) THEN "HIGH"
        ELSE IF ~IsNaN(r.reorder_now) /\ Val(r.reorder_now) THEN "HIGH"
        ELSE IF Val(r.days_of_cover) <= 300 THEN "HIGH"
        ELSE IF vc = "erratic" THEN "HIGH"
        ELSE IF Val(r.days_of_cover) <= 700 \/ vc = "seasonal" THEN "MEDIUM"
        ELSE "LOW"

DaysOfCoverCells == { NaN, {0}, {299}, {300}, {301}, {700}, {701}, {1000} }

ReorderNowCells == { NaN, {TRUE}, {FALSE} }

VolatilityColumns ==
    { NoColumn, Column(NaN), Column({"erratic"}), Column({" Erratic "}),
      Column({"seasonal"}), Column({"SEASONAL"}), Column({"Stable"}),
      Column({"intermittent"}) }

\* The simulation is not run: its variables keep the values of an empty run.
IdleSim ==
    /\ forecast_df = [pattern |-> <<{0}, {0}>>, lead_time |-> NoColumn, gap |-> 1]
    /\ inventory_df = NaN
    /\ reorder_df = NoReorderRow
    /\ min_order_qty = 0
    /\ t = 0
    /\ on_hand = 0
    /\ on_order = <<>>
    /\ recv_qty = 0
    /\ outstanding = 0
    /\ inv_position = 0
    /\ row = BlankRow
    /\ placed_total = 0
    /\ received_total = 0

InitRisk ==
    /\ pc = "score"
    /\ IdleSim
    /\ risk_row \in [days_of_cover : DaysOfCoverCells,
                      reorder_now : ReorderNowCells,
                      volatility_class : VolatilityColumns]
    /\ inventory_risk = NaN
    /\ IdleProc
    /\ IdleCall

\* df["inventory_risk"] = df.apply(classify, axis=1)
ScoreRow ==
    /\ pc = "score"
    /\ inventory_risk' = {classify(risk_row)}
    /\ pc' = "scored"
    /\ UNCHANGED risk_row
    /\ UNCHANGED simVars
    /\ UNCHANGED procVars
    /\ UNCHANGED callVars

\* A next row of the table is classified.
NextRow ==
    /\ pc = "scored"
    /\ risk_row' \in [days_of_cover : DaysOfCoverCells,
                       reorder_now : ReorderNowCells,
                       volatility_class : VolatilityColumns]
    /\ inventory_risk' = NaN
    /\ pc' = "score"
    /\ UNCHANGED simVars
    /\ UNCHANGED procVars
    /\ UNCHANGED callVars

NextRisk == ScoreRow \/ NextRow

SpecRisk == InitRisk /\ [][NextRisk]_vars

-----------------------------------------------------------------------------
(* ProcurementOptimizer.optimize                                           *)
(*                                                                         *)
(* Quantities count 1/300 of a unit, prices and penalties count cents,     *)
(* weights count tenths, shares, rates and pct_at_risk_90 count            *)
(* hundredths.  A supplier table is the sequence of its rows.              *)

\* OptimizationConfig() of policy.normal_policy, equal to the defaults.
normal_policy ==
    [mode |-> "normal", max_share_normal |-> 70, max_share_emergency |-> 50,
     shortage_penalty_per_unit |-> 500, expiry_penalty_rate |-> 25,
     weight_procurement |-> 10, weight_expiry |-> 10, weight_shortage |-> 10]

\* OptimizationConfig() of policy.emergency_policy.
emergency_policy ==
    [mode |-> "emergency", max_share_normal |-> 70, max_share_emergency |-> 50,
     shortage_penalty_per_unit |-> 5000, expiry_penalty_rate |-> 10,
     weight_procurement |-> 6, weight_expiry |-> 3, weight_shortage |-> 30]

Min(a, b) == IF a <= b THEN a ELSE b

RECURSIVE SumTo(_, _)
SumTo(f, k) == IF k = 0 THEN 0 ELSE f[k] + SumTo(f, k - 1)

\* lpSum(x.values())
SumX(f) == SumTo(f, Len(f))

\* Mutant: the normal share is used in every mode.
MaxShareNormalOnly(cfg) ==
    cfg.max_share_normal

\* max_share, in hundredths.
MaxShare(cfg) ==
    IF cfg.mode = "emergency" THEN cfg.max_share_emergency
    ELSE cfg.max_share_normal

\* max_share * required_qty; the quantities of the model are multiples of 10,
\* which makes the division exact.
ShareCap(cfg, req) == (MaxShare(cfg) * req) \div 100

\* Constraint DemandSoft.
DemandSoft(s, req) == SumX(s.x) + s.shortage >= req

\* Constraint Cap_sid.
CapOk(s, pool, i) == s.x[i] <= pool[i].capacity_per_period

ShareCapOkDropped(s, cfg, req, i) == TRUE

\* Constraint ShareCap_sid.
ShareCapOk(s, cfg, req, i) == s.x[i] <= ShareCap(cfg, req)

\* Mutant: the minimum order quantity is not enforced.
MOQminNone(s, pool, i) ==
    s.x[i] >= 0

\* Constraint MOQmin_sid.
MOQmin(s, pool, i) == s.x[i] >= pool[i].min_order_qty * s.y[i]

\* Constraint MOQlink_sid.
MOQlink(s, pool, i) == s.x[i] <= pool[i].capacity_per_period * s.y[i]

\* The constraints and variable bounds of the MILP, for an assignment s of
\* x, y and shortage.
Feasible(s, pool, cfg, req) ==
    /\ s.shortage >= 0
    /\ DemandSoft(s, req)
    /\ \A i \in 1..Len(pool) :
        /\ s.x[i] >= 0
        /\ s.y[i] \in {0, 1}
        /\ CapOk(s, pool, i)
        /\ ShareCapOk(s, cfg, req, i)
        /\ MOQmin(s, pool, i)
        /\ MOQlink(s, pool, i)

\* Mutant: the price column is not read, every supplier costs the same.
UnitCostFlat(r, cfg, pct) ==
    cfg.weight_procurement * 100

\* Cost of one 1/300 of a unit bought from supplier row r, in 1/10000 of the
\* currency: weight_procurement * price + weight_expiry * price *
\* expiry_penalty_rate * pct_at_risk_90 (exact for pct_at_risk_90 0 or 1).
UnitCost(r, cfg, pct) ==
    (r.price_per_unit * (cfg.weight_procurement * 10000
                         + cfg.weight_expiry * cfg.expiry_penalty_rate * pct))
        \div 1000

\* weight_shortage * shortage_penalty_per_unit, in 1/10000 of the currency.
ShortageCost(cfg) == cfg.weight_shortage * cfg.shortage_penalty_per_unit * 10

RECURSIVE CostTo(_, _, _, _, _)
CostTo(f, pool, cfg, pct, k) ==
    IF k = 0 THEN <<0, 0>>
    ELSE LET rest == CostTo(f, pool, cfg, pct, k - 1)
             c == UnitCost(pool[k], cfg, pct)
         IN  <<rest[1] + c * (f[k] \div Unit), rest[2] + c * (f[k] % Unit)>>

\* The objective TotalCost of an assignment, as <<whole, part>>: whole
\* 1/10000 of the currency plus part/300 of one.
TotalCost(s, pool, cfg, pct) ==
    LET bought == CostTo(s.x, pool, cfg, pct, Len(pool))
        p == ShortageCost(cfg)
        whole == bought[1] + p * (s.shortage \div Unit)
        part == bought[2] + p * (s.shortage % Unit)
    IN  <<whole + part \div Unit, part % Unit>>

CostLeq(a, b) == a[1] < b[1] \/ (a[1] = b[1] /\ a[2] <= b[2])

\* Values at which a supplier's quantity can sit in a basic solution: zero,
\* its minimum order quantity, or the smaller of its capacity and the share
\* cap.
Bounds(pool, cfg, req, i) ==
    {0, pool[i].min_order_qty,
     Min(pool[i].capacity_per_period, ShareCap(cfg, req))}

\* The basic assignments of the quantities: every supplier at one of its
\* bounds, or all but one at a bound and the last one closing the demand.
Vertices(pool, cfg, req) ==
    LET n == Len(pool)
        all == UNION {Bounds(pool, cfg, req, i) : i \in 1..n}
        atBounds == {f \in [1..n -> all] :
                        \A i \in 1..n : f[i] \in Bounds(pool, cfg, req, i)}
    IN  atBounds \cup
        {[f EXCEPT ![i] = req - (SumX(f) - f[i])] : f \in atBounds, i \in 1..n}

\* Mutant: there is no shortage variable, the demand is hard.
AssignmentHardDemand(f, req) ==
    [x |-> f,
     y |-> [i \in 1..Len(f) |-> IF f[i] > 0 THEN 1 ELSE 0],
     shortage |-> 0]

\* An assignment of the quantities with the use flags and the shortage that
\* cost least for it.
Assignment(f, req) ==
    [x |-> f,
     y |-> [i \in 1..Len(f) |-> IF f[i] > 0 THEN 1 ELSE 0],
     shortage |-> Max(0, req - SumX(f))]

FeasibleSet(pool, cfg, req) ==
    {s \in {Assignment(f, req) : f \in Vertices(pool, cfg, req)} :
        Feasible(s, pool, cfg, req)}

\* What model.solve can leave behind: a basic optimal assignment with status
\* Optimal; for a model without feasible assignment the status Infeasible
\* and whatever values the solver stopped at.
Solve(pool, cfg, req, pct) ==
    LET feas == FeasibleSet(pool, cfg, req)
        cost == [s \in feas |-> TotalCost(s, pool, cfg, pct)]
        n == Len(pool)
    IN  IF feas # {}
        THEN {[status |-> "Optimal", x |-> s.x, y |-> s.y,
               shortage |-> s.shortage] :
                 s \in {a \in feas : \A b \in feas : CostLeq(cost[a], cost[b])}}
        ELSE {[status |-> "Infeasible", x |-> f, y |-> u, shortage |-> sh] :
                 f \in {g \in [1..n -> {0} \cup
                                 {Max(0, pool[i].min_order_qty) : i \in 1..n}] :
                           \A i \in 1..n :
                              g[i] \in {0, Max(0, pool[i].min_order_qty)}},
                 u \in [1..n -> {0, 1}],
                 sh \in {0, Max(0, req)}}

\* The rows collected from the solver's values, in the order of the table.
RECURSIVE SolRows(_, _, _)
SolRows(sv, pool, k) ==
    IF k = 0 THEN <<>>
    ELSE LET rest == SolRows(sv, pool, k - 1)
         IN  IF sv.x[k] > 0
             THEN Append(rest, [supplier_id |-> pool[k].supplier_id,
                                ordered_qty |-> Round2(sv.x[k]),
                                used_flag |-> sv.y[k],
                                price_per_unit |-> pool[k].price_per_unit])
             ELSE rest

\* sort_values("ordered_qty", ascending=False) of a table with rows.
RECURSIVE SortByQtyDesc(_)
SortByQtyDesc(rows) ==
    IF rows = <<>> THEN <<>>
    ELSE LET n == Len(rows)
             best == CHOOSE i \in 1..n :
                        /\ \A j \in 1..n :
                              rows[j].ordered_qty <= rows[i].ordered_qty
                        /\ \A j \in 1..(i - 1) :
                              rows[j].ordered_qty < rows[i].ordered_qty
         IN  <<rows[best]>> \o
             SortByQtyDesc([j \in 1..(n - 1) |->
                               IF j < best THEN rows[j] ELSE rows[j + 1]])

\* round(objective, 4): the nearest whole 1/10000, a tie going to even.
RoundObjective(cost) ==
    CASE 2 * cost[2] < Unit -> cost[1]
      [] 2 * cost[2] > Unit -> cost[1] + 1
      [] OTHER -> IF cost[1] % 2 = 0 THEN cost[1] ELSE cost[1] + 1

\* The dictionary meta.
Meta(sv, pool, cfg, req, pct) ==
    [status |-> sv.status, mode |-> cfg.mode, required_qty |-> req,
     shortage |-> Round2(sv.shortage), pct_at_risk_90 |-> pct,
     objective_value |->
        RoundObjective(TotalCost(sv, pool, cfg, pct))]

SolverNotRun == [status |-> "Not Solved", x |-> <<>>, y |-> <<>>, shortage |-> 0]

\* Mutant: an empty table is not refused, the model is built and solved.
optimizeNoEmptyCheck(pool, req, pct, cfg) ==
    {LET sol == SolRows(sv, pool, Len(pool))
     IN  IF sol = <<>>
         THEN [raised |-> "KeyError", allocation |-> NaN, meta |-> NaN,
               solver |-> sv]
         ELSE [raised |-> "none",
               allocation |-> {SortByQtyDesc(sol)},
               meta |-> {Meta(sv, pool, cfg, req, pct)},
               solver |-> sv] :
       sv \in Solve(pool, cfg, req, pct)}

\* optimize(suppliers_df, required_qty, pct_at_risk_90, config): every
\* outcome the call can have.  An empty table raises ValueError; an empty
\* list of rows makes a table without columns, on which sort_values raises
\* KeyError.
optimize(pool, req, pct, cfg) ==
    IF pool = <<>>
    THEN {[raised |-> "ValueError", allocation |-> NaN, meta |-> NaN,
           solver |-> SolverNotRun]}
    ELSE {LET sol == SolRows(sv, pool, Len(pool))
          IN  IF sol = <<>>
              THEN [raised |-> "KeyError", allocation |-> NaN, meta |-> NaN,
                    solver |-> sv]
              ELSE [raised |-> "none",
                    allocation |-> {SortByQtyDesc(sol)},
                    meta |-> {Meta(sv, pool, cfg, req, pct)},
                    solver |-> sv] :
            sv \in Solve(pool, cfg, req, pct)}

-----------------------------------------------------------------------------
(* SupplierRanker.rank *)

EMERGENCY_WEIGHTS ==
    [price |-> 10, lead_time |-> 40, reliability |-> 40, risk |-> 10]

\* Series.max() of a column without missing values.
SetMax(S) == CHOOSE m \in S : \A v \in S : v <= m

PriceOf(r) == r.price_per_unit

\* lead_time_days + lead_time_std, in tenths of a day.
LeadOf(r) == r.lead_time_days + r.lead_time_std

\* supplier_score of row r of a table with positive prices and lead times,
\* times 10000 * max price * max lead time: the order of the scores of one
\* table is the order of these integers.  Price and lead time are divided by
\* the table's maximum, 1 - reliability_score and risk_score are taken as
\* they are.
SupplierScore(r, pool, weights) ==
    LET maxPrice == SetMax({PriceOf(pool[i]) : i \in 1..Len(pool)})
        maxLead == SetMax({LeadOf(pool[i]) : i \in 1..Len(pool)})
    IN  100 * weights.price * PriceOf(r) * maxLead
        + 100 * weights.lead_time * LeadOf(r) * maxPrice
        + (weights.reliability * (100 - r.reliability_score)
           + weights.risk * r.risk_score) * maxPrice * maxLead

rankMinMethod(pool, weights) ==
    LET n == Len(pool)
        score == [i \in 1..n |-> SupplierScore(pool[i], pool, weights)]
        dense(i) == 1 + Cardinality({k \in 1..n : score[k] < score[i]})
        scored == [i \in 1..n |->
                     [supplier_id |-> pool[i].supplier_id,
                      price_per_unit |-> pool[i].price_per_unit,
                      lead_time_days |-> pool[i].lead_time_days,
                      lead_time_std |-> pool[i].lead_time_std,
                      reliability_score |-> pool[i].reliability_score,
                      risk_score |-> pool[i].risk_score,
                      capacity_per_period |-> pool[i].capacity_per_period,
                      min_order_qty |-> pool[i].min_order_qty,
                      contracted |-> pool[i].contracted,
                      supplier_score |-> score[i],
                      rank |-> dense(i)]]
    IN  {[i \in 1..n |-> scored[p[i]]] :
           p \in {q \in [1..n -> 1..n] :
                    /\ \A i, j \in 1..n : i # j => q[i] # q[j]
                    /\ \A i \in 1..(n - 1) : score[q[i]] <= score[q[i + 1]]}}

\* rank(df): the rows with their score and dense rank, sorted by score; rows
\* of equal score in any order.
rank(pool, weights) ==
    LET n == Len(pool)
        score == [i \in 1..n |-> SupplierScore(pool[i], pool, weights)]
        dense(i) == 1 + Cardinality({score[j] : j \in {k \in 1..n :
                                                         score[k] < score[i]}})
        scored == [i \in 1..n |->
                     [supplier_id |-> pool[i].supplier_id,
                      price_per_unit |-> pool[i].price_per_unit,
                      lead_time_days |-> pool[i].lead_time_days,
                      lead_time_std |-> pool[i].lead_time_std,
                      reliability_score |-> pool[i].reliability_score,
                      risk_score |-> pool[i].risk_score,
                      capacity_per_period |-> pool[i].capacity_per_period,
                      min_order_qty |-> pool[i].min_order_qty,
                      contracted |-> pool[i].contracted,
                      supplier_score |-> score[i],
                      rank |-> dense(i)]]
    IN  {[i \in 1..n |-> scored[p[i]]] :
           p \in {q \in [1..n -> 1..n] :
                    /\ \A i, j \in 1..n : i # j => q[i] # q[j]
                    /\ \A i \in 1..(n - 1) : score[q[i]] <= score[q[i + 1]]}}

-----------------------------------------------------------------------------
(* ShortageSourcingEngine                                                  *)
(*                                                                         *)
(* days_of_cover and trigger_doc_days count thousandths of a day, service  *)
(* levels count thousandths.                                               *)

\* f"{v:.2f}": the value in hundredths.
Fmt2(v) == RoundHalfEven(v)

\* Mutant: the service level is tested first.
is_shortageServiceFirst(c) ==
    IF ~IsNaN(c.service_level) /\ Val(c.service_level) < c.service_level_threshold
    THEN [shortage |-> TRUE,
          reason |-> [kind |-> "service_level",
                      value |-> Fmt2(Val(c.service_level)),
                      limit |-> Fmt2(c.service_level_threshold)]]
    ELSE IF ~IsNaN(c.days_of_cover) /\ Val(c.days_of_cover) <= c.trigger_doc_days
    THEN [shortage |-> TRUE,
          reason |-> [kind |-> "days_of_cover",
                      value |-> Fmt2(Val(c.days_of_cover)),
                      limit |-> Fmt2(c.trigger_doc_days)]]
    ELSE [shortage |-> FALSE,
          reason |-> [kind |-> "no_shortage_trigger", value |-> 0, limit |-> 0]]

\* is_shortage(ctx); a NaN days_of_cover compares false.
is_shortage(c) ==
    IF ~IsNaN(c.days_of_cover) /\ Val(c.days_of_cover) <= c.trigger_doc_days
    THEN [shortage |-> TRUE,
          reason |-> [kind |-> "days_of_cover",
                      value |-> Fmt2(Val(c.days_of_cover)),
                      limit |-> Fmt2(c.trigger_doc_days)]]
    ELSE IF ~IsNaN(c.service_level)
            /\ Val(c.service_level) < c.service_level_threshold
    THEN [shortage |-> TRUE,
          reason |-> [kind |-> "service_level",
                      value |-> Fmt2(Val(c.service_level)),
                      limit |-> Fmt2(c.service_level_threshold)]]
    ELSE [shortage |-> FALSE,
          reason |-> [kind |-> "no_shortage_trigger", value |-> 0, limit |-> 0]]

\* suppliers[suppliers["contracted"] == True]
Contracted(rows) == SelectSeq(rows, LAMBDA r : r.contracted)

\* ranked.head(3) with the columns of the summary.
TopSuppliers(ranked) ==
    [i \in 1..Min(3, Len(ranked)) |->
        [supplier_id |-> ranked[i].supplier_id,
         supplier_score |-> ranked[i].supplier_score,
         price_per_unit |-> ranked[i].price_per_unit,
         lead_time_days |-> ranked[i].lead_time_days,
         reliability_score |-> ranked[i].reliability_score,
         risk_score |-> ranked[i].risk_score]]

NoOptimizerCall ==
    [suppliers_df |-> <<>>, required_qty |-> 0, pct_at_risk_90 |-> 0,
     config |-> NaN, solver |-> NaN]

\* emergency_plan(ctx) over the rows the repository returns: every outcome,
\* with the collaborators called and the arguments given to optimize.  An
\* exception of optimize propagates.
emergency_plan(c, rows) ==
    LET trig == is_shortage(c)
        contracted == Contracted(rows)
        pool == IF contracted # <<>> THEN contracted ELSE rows
    IN  IF rows = <<>>
        THEN {[result |-> [raised |-> "none", returned |-> "error",
                           shortage |-> {trig.shortage},
                           trigger_reason |-> {trig.reason},
                           summary |-> NaN, ranked_suppliers |-> NaN,
                           allocation |-> NaN, residual_shortage |-> NaN],
               calls |-> <<"is_shortage", "get_suppliers">>,
               opt |-> NoOptimizerCall]}
        ELSE UNION {{[result |->
                 IF out.raised # "none"
                 THEN [raised |-> out.raised, returned |-> "nothing",
                       shortage |-> NaN, trigger_reason |-> NaN,
                       summary |-> NaN, ranked_suppliers |-> NaN,
                       allocation |-> NaN, residual_shortage |-> NaN]
                 ELSE [raised |-> "none", returned |-> "plan",
                       shortage |-> NaN, trigger_reason |-> NaN,
                       summary |->
                         {[shortage |-> trig.shortage,
                           trigger_reason |-> trig.reason,
                           mode |-> "emergency",
                           required_qty |-> c.required_qty,
                           optimizer_status |-> Val(out.meta).status,
                           residual_shortage |-> Val(out.meta).shortage,
                           objective_value |-> Val(out.meta).objective_value,
                           top_suppliers |-> TopSuppliers(ranked)]},
                       ranked_suppliers |-> {ranked},
                       allocation |-> out.allocation,
                       residual_shortage |-> {Val(out.meta).shortage}],
               calls |-> <<"is_shortage", "get_suppliers", "rank", "optimize">>,
               opt |-> [suppliers_df |-> ranked,
                        required_qty |-> c.required_qty,
                        pct_at_risk_90 |-> 0,
                        config |-> emergency_policy,
                        solver |-> out.solver]] :
                out \in optimize(ranked, c.required_qty, 0, emergency_policy)} :
                ranked \in rank(pool, EMERGENCY_WEIGHTS)}

-----------------------------------------------------------------------------
(* Inputs of the procurement calls *)

SupplierRow(id, price, lead, std, reliability, risk, cap, moq, contract) ==
    [supplier_id |-> id, price_per_unit |-> price, lead_time_days |-> lead,
     lead_time_std |-> std, reliability_score |-> reliability,
     risk_score |-> risk, capacity_per_period |-> cap, min_order_qty |-> moq,
     contracted |-> contract]

\* Small suppliers, with quantities that round(x, 2) changes.
SupplierA == SupplierRow("A", 10, 50, 10, 90, 10, 30, 7, TRUE)
SupplierB == SupplierRow("B", 8, 70, 20, 95, 20, 14, 0, FALSE)
\* A supplier dearer than the normal shortage penalty of 5.00 a unit.
SupplierC == SupplierRow("C", 700, 30, 0, 80, 30, 100, 10, FALSE)
\* A supplier whose minimum order is above its capacity.
SupplierD == SupplierRow("D", 9, 50, 10, 90, 10, 10, 20, TRUE)
\* A row with a negative capacity.
SupplierE == SupplierRow("E", 9, 50, 10, 90, 10, 0 - 30, 0, FALSE)

\* The two rows that scripts/create_supplier_pool.py writes.
SUP_001 ==
    SupplierRow("SUP_001", 12, 70, 20, 92, 10, 50000 * Unit, 1000 * Unit, TRUE)
SUP_002 ==
    SupplierRow("SUP_002", 10, 140, 40, 85, 25, 100000 * Unit, 5000 * Unit,
                FALSE)

Pools ==
    { <<>>, <<SupplierA>>, <<SupplierB>>, <<SupplierC>>, <<SupplierD>>,
      <<SupplierA, SupplierB>>, <<SupplierB, SupplierC>>,
      <<SupplierA, SupplierE>>,
      <<SupplierA, SupplierB, SupplierC>>, <<SUP_001, SUP_002>> }

\* required_qty values; a caller's float can be negative.
RequiredQtys == {0 - 10, 0, 20, 40}

Pcts == {0, 100}

\* The calls of optimize: every small case, and the case of
\* scripts/test_cost_optimizer.py with 30000 units in normal mode.
OptimizeInputs ==
    [pool : Pools, req : RequiredQtys, pct : Pcts,
     cfg : {normal_policy, emergency_policy}]
    \cup [pool : {<<SUP_001, SUP_002>>}, req : {30000 * Unit},
          pct : Pcts, cfg : {normal_policy}]

Contexts ==
    [days_of_cover : {NaN, {3000}, {6996}, {7000}, {7004}, {30000}},
     required_qty : RequiredQtys \ {0 - 10},
     trigger_doc_days : {7 * 1000, 2 * 1000},
     service_level : {NaN, {850}, {899}, {900}, {950}},
     service_level_threshold : {9 * 100}]

-----------------------------------------------------------------------------
(* The procurement calls *)

InitProc ==
    /\ pc = "call"
    /\ IdleSim
    /\ risk_row = BlankRow
    /\ inventory_risk = NaN
    /\ IdleProc
    /\ IdleCall

\* A direct call of ProcurementOptimizer.optimize.
Optimize ==
    /\ pc = "call"
    /\ \E in \in OptimizeInputs :
         \E out \in optimize(in.pool, in.req, in.pct, in.cfg) :
            /\ suppliers_df' = in.pool
            /\ required_qty' = in.req
            /\ pct_at_risk_90' = in.pct
            /\ config' = in.cfg
            /\ solver' = out.solver
            /\ result' = [raised |-> out.raised, allocation |-> out.allocation,
                          meta |-> out.meta]
    /\ pc' = "optimized"
    /\ UNCHANGED <<supplier_pool, ctx, calls>>
    /\ UNCHANGED simVars
    /\ UNCHANGED riskVars
    /\ UNCHANGED callVars

\* A call of ShortageSourcingEngine.is_shortage.
IsShortage ==
    /\ pc = "call"
    /\ \E c \in Contexts :
         /\ ctx' = c
         /\ result' = is_shortage(c)
    /\ pc' = "evaluated"
    /\ UNCHANGED <<supplier_pool, suppliers_df, required_qty, pct_at_risk_90,
                   config, solver, calls>>
    /\ UNCHANGED simVars
    /\ UNCHANGED riskVars
    /\ UNCHANGED callVars

\* A call of ShortageSourcingEngine.emergency_plan.
EmergencyPlan ==
    /\ pc = "call"
    /\ \E c \in Contexts, rows \in Pools :
         \E out \in emergency_plan(c, rows) :
            /\ ctx' = c
            /\ supplier_pool' = rows
            /\ calls' = out.calls
            /\ suppliers_df' = out.opt.suppliers_df
            /\ required_qty' = out.opt.required_qty
            /\ pct_at_risk_90' = out.opt.pct_at_risk_90
            /\ config' = out.opt.config
            /\ solver' = out.opt.solver
            /\ result' = out.result
    /\ pc' = "planned"
    /\ UNCHANGED simVars
    /\ UNCHANGED riskVars
    /\ UNCHANGED callVars

\* The caller goes on to its next call.
NextCall ==
    /\ pc \in {"optimized", "evaluated", "planned"}
    /\ pc' = "call"
    /\ supplier_pool' = <<>>
    /\ suppliers_df' = <<>>
    /\ required_qty' = 0
    /\ pct_at_risk_90' = 0
    /\ config' = NaN
    /\ ctx' = NaN
    /\ solver' = NaN
    /\ result' = NaN
    /\ calls' = <<>>
    /\ UNCHANGED simVars
    /\ UNCHANGED riskVars
    /\ UNCHANGED callVars

NextProc == Optimize \/ IsShortage \/ EmergencyPlan \/ NextCall

SpecProc == InitProc /\ [][NextProc]_vars

-----------------------------------------------------------------------------
(* Properties of the simulation *)

Rp == reorder_df.reorder_point

Avgd == reorder_df.avg_daily_demand

\* The lead_time_days cell the loop read for the row, in tenths.
RowLeadTime == ResolveLeadTime(forecast_df.lead_time, reorder_df.lead_time)

\* The entry appended to on_order by the last iteration, if any.
PlacedToday == row.reorder_now /\ on_order # <<>>

LastOrder == on_order[Len(on_order)]

\* C1: with every daily demand >= 0, whatever the starting stock, every row
\* emitted has stock_on_hand >= 0 (and so has the local on_hand behind it).
C1_StockNeverNegative ==
    t >= 1 => row.forecast >= 0 /\ row.stock_on_hand >= 0 /\ on_hand >= 0

\* C1 witness: a stockout; no stock at the start and a positive demand on the
\* first day, which the floor turns into a stock of 0.
C1_Witness ==
    /\ t = 1
    /\ StartingStock(inventory_df) <= 0
    /\ row.forecast > 0
    /\ row.stock_on_hand = 0

\* C2 as stated: whenever reorder_point and avg_daily_demand are known and
\* the position after consumption is <= reorder_point, an order of
\* max(min_order_qty, avg_daily_demand * order_up_to_days) is triggered,
\* arriving round(lead_time_days) days later, and joins the outstanding set;
\* a position above the reorder point triggers none.
C2_AsStated ==
    (t >= 1 /\ ~IsNaN(Rp) /\ ~IsNaN(Avgd)) =>
        IF inv_position <= Val(Rp)
        THEN /\ row.reorder_now
             /\ row.order_qty = Round2(Max(min_order_qty, Val(Avgd) * 14))
             /\ row.order_arrival_ds = {row.ds + RoundHalfEven(RowLeadTime)}
             /\ on_order # <<>>
             /\ LastOrder = <<row.ds + RoundHalfEven(RowLeadTime),
                              Max(min_order_qty, Val(Avgd) * 14)>>
        ELSE ~row.reorder_now /\ row.order_qty = 0 /\ IsNaN(row.order_arrival_ds)

\* C2 amended: the order is triggered when, besides, avg_daily_demand > 0, and
\* it arrives max(0, round(lead_time_days)) days later; with a known
\* avg_daily_demand <= 0, or a position above the reorder point, no order.
C2_ReorderDecision ==
    (t >= 1 /\ ~IsNaN(Rp) /\ ~IsNaN(Avgd)) =>
        IF Val(Avgd) > 0 /\ inv_position <= Val(Rp)
        THEN /\ row.reorder_now
             /\ row.order_qty = Round2(Max(min_order_qty, Val(Avgd) * 14))
             /\ row.order_arrival_ds =
                    {row.ds + Max(0, RoundHalfEven(RowLeadTime))}
             /\ on_order # <<>>
             /\ LastOrder = <<row.ds + Max(0, RoundHalfEven(RowLeadTime)),
                              Max(min_order_qty, Val(Avgd) * 14)>>
        ELSE ~row.reorder_now /\ row.order_qty = 0 /\ IsNaN(row.order_arrival_ds)

\* C2 witness: an order triggered with the position exactly at the reorder
\* point, and a lead time that rounds to a positive number of days.
C2_Witness ==
    /\ t >= 1
    /\ row.reorder_now
    /\ inv_position = Val(Rp)
    /\ Val(row.order_arrival_ds) > row.ds

\* C3: a daily step receives before it consumes: the orders due by the day
\* of the step are added to on_hand before the demand is subtracted, and they
\* leave on_order in the same step, so that no order due stays outstanding.
C3_ReceiveBeforeConsume ==
    [][ t' = t + 1 =>
          LET d   == row'.ds
              due == SelectSeq(on_order, LAMBDA x : x[1] <= d)
              n   == Len(on_order) - Len(due)
          IN  /\ recv_qty' = SumQty(due)
              /\ on_hand' = Max(0, on_hand + SumQty(due) - row'.forecast)
              /\ received_total' = received_total + SumQty(due)
              /\ SubSeq(on_order', 1, n) =
                     SelectSeq(on_order, LAMBDA x : x[1] > d)
              /\ \A i \in 1..n : on_order'[i][1] > d
              /\ Len(on_order') \in {n, n + 1}
      ]_vars

\* C3 witness: a receipt on a day that starts out of stock, so that the
\* day's demand is served from the quantity just received.
C3_Witness ==
    /\ t >= 1
    /\ recv_qty > 0
    /\ row.forecast > 0
    /\ on_hand = recv_qty - row.forecast

\* The lead time C4 states: the one of reorder_df when it carries one, else
\* the one of forecast_df, else 7 days.
C4_StatedLeadTime ==
    IF reorder_df.lead_time.col /\ ~IsNaN(reorder_df.lead_time.v)
    THEN Val(reorder_df.lead_time.v)
    ELSE IF forecast_df.lead_time.col /\ ~IsNaN(forecast_df.lead_time.v)
    THEN Val(forecast_df.lead_time.v)
    ELSE 70

\* C4: the lead time used to schedule arrivals is the one of reorder_df when
\* it carries one, else the one of forecast_df, else 7 days (rounded to whole,
\* non-negative days): an order placed on day d arrives on d + round(L).
C4_LeadTimePrecedence ==
    t >= 1 =>
        /\ row.lead_time_days = Max(0, RoundHalfEven(C4_StatedLeadTime))
        /\ row.reorder_now =>
               row.order_arrival_ds =
                   {row.ds + Max(0, RoundHalfEven(C4_StatedLeadTime))}

\* The scenario of C5: 100 units a day, starting stock 500, lead time 7,
\* min_order_qty 0, consecutive days, reorder parameters computed by
\* ReorderAgent from the series.
C5_Scenario ==
    /\ forecast_df.pattern = <<{100 * Unit}, {100 * Unit}>>
    /\ forecast_df.gap = 1
    /\ inventory_df = {500 * Unit}
    /\ min_order_qty = 0
    /\ reorder_df = AsReorderRow(compute_reorder_point(
                        Series(forecast_df.pattern), {70}, service_level_z))

\* C5: in the scenario the computed reorder point is 700; no day with a
\* position <= 700 goes by without a trigger, the first trigger being on the
\* first day; every order is of 1400 units and due 7 days after its trigger;
\* the first 1400 units are in on_order and not in on_hand up to day 6 and
\* are received on day 7.
C5_ScenarioTrigger ==
    C5_Scenario =>
        /\ Rp = {700 * Unit}
        /\ (t >= 1 /\ placed_total = 0) => inv_position > 700 * Unit
        /\ (t >= 1 /\ row.reorder_now) =>
               /\ inv_position <= 700 * Unit
               /\ row.order_qty = 1400 * Unit
               /\ row.order_arrival_ds = {row.ds + 7}
               /\ LastOrder = <<row.ds + 7, 1400 * Unit>>
        /\ t = 1 => row.reorder_now /\ row.ds = 0
        /\ t \in 1..7 =>
               /\ on_order = << <<7, 1400 * Unit>> >>
               /\ on_hand = Max(0, 500 * Unit - t * 100 * Unit)
               /\ received_total = 0
        /\ t = 8 =>
               /\ row.ds = 7
               /\ recv_qty = 1400 * Unit
               /\ on_hand = 1300 * Unit
               /\ on_order = <<>>

\* C5 witness: the scenario on day 7, the 1400 units just received.
C5_Witness ==
    /\ C5_Scenario
    /\ t = 8
    /\ received_total = 1400 * Unit

\* The outstanding quantity of the row: on_order without today's order.
C6_Outstanding ==
    SumQty(on_order) - (IF PlacedToday THEN LastOrder[2] ELSE 0)

\* C6 as stated: in every emitted row inventory_position = stock_on_hand +
\* outstanding_orders_qty.
C6_AsStated ==
    t >= 1 =>
        row.inventory_position = row.stock_on_hand + row.outstanding_orders_qty

\* C6 amended: the identity holds of the values before they are rounded:
\* inv_position = on_hand + the quantities on order without the order placed
\* that day; the row carries each of the three rounded to 2 decimals on its
\* own, so that the emitted values agree to within 0.01, and exactly when
\* the quantities are multiples of 0.01.
C6_PositionIdentity ==
    t >= 1 =>
        /\ inv_position = on_hand + C6_Outstanding
        /\ row.stock_on_hand = Round2(on_hand)
        /\ row.outstanding_orders_qty = Round2(C6_Outstanding)
        /\ row.inventory_position = Round2(on_hand + C6_Outstanding)
        /\ row.inventory_position
               - (row.stock_on_hand + row.outstanding_orders_qty) \in {0 - 3, 0, 3}
        /\ (on_hand % 3 = 0 /\ C6_Outstanding % 3 = 0) =>
               row.inventory_position =
                   row.stock_on_hand + row.outstanding_orders_qty

\* C6 witness: a row with stock and outstanding orders whose rounded values
\* do not add up to the rounded position.
C6_Witness ==
    /\ t >= 1
    /\ row.stock_on_hand > 0
    /\ row.outstanding_orders_qty > 0
    /\ row.inventory_position # row.stock_on_hand + row.outstanding_orders_qty

\* C7: with reorder_point or avg_daily_demand missing, every day still emits
\* its row and consumes the demand, never orders, leaves on_order empty, and
\* the emitted stock never increases.
C7_ConsumptionOnly ==
    [][ (t' = t + 1 /\ (IsNaN(Rp) \/ IsNaN(Avgd))) =>
          /\ row'.ds = t * forecast_df.gap
          /\ ~row'.reorder_now
          /\ row'.order_qty = 0
          /\ IsNaN(row'.order_arrival_ds)
          /\ on_order' = <<>>
          /\ row'.outstanding_orders_qty = 0
          /\ on_hand' = Max(0, on_hand - row'.forecast)
          /\ on_hand >= 0 => on_hand' <= on_hand
          /\ t >= 1 => row'.stock_on_hand <= row.stock_on_hand
      ]_vars

\* C7 witness: the end of a run without a reorder point, although the
\* average demand is known, the stock of 500 consumed to 0.
C7_Witness ==
    /\ pc = "done"
    /\ IsNaN(Rp)
    /\ ~IsNaN(Avgd)
    /\ inventory_df = {500 * Unit}
    /\ on_hand = 0
    /\ placed_total = 0

\* The divisor C8 states: max(avg_daily_demand, demand_today, epsilon).
C8_StatedDivisor ==
    LET m == Max(IF IsNaN(Avgd) THEN 0 ELSE Val(Avgd), row.forecast)
    IN  IF m > 0 THEN [eps |-> FALSE, v |-> m] ELSE [eps |-> TRUE, v |-> 0]

\* C8 as stated: days_of_cover = on_hand / max(avg_daily_demand,
\* demand_today, epsilon).
C8_AsStated ==
    t >= 1 => row.days_of_cover \in DaysOfCover(on_hand, C8_StatedDivisor)

\* C8 amended: the divisor is avg_daily_demand when it is known and > 0,
\* whatever the day's demand; only otherwise is it max(demand_today, 1e-6).
C8_DaysOfCover ==
    t >= 1 =>
        LET div == IF ~IsNaN(Avgd) /\ Val(Avgd) > 0
                   THEN [eps |-> FALSE, v |-> Val(Avgd)]
                   ELSE IF row.forecast > 0
                   THEN [eps |-> FALSE, v |-> row.forecast]
                   ELSE [eps |-> TRUE, v |-> 0]
        IN  row.days_of_cover \in DaysOfCover(on_hand, div)

\* C8 witness: a day with stock left whose demand exceeds the average.
C8_Witness ==
    /\ t >= 1
    /\ ~IsNaN(Avgd)
    /\ Val(Avgd) > 0
    /\ row.forecast > Val(Avgd)
    /\ on_hand > 0

\* C9: the quantities ordered so far are the quantities received so far plus
\* the quantities still on order, and no order due is left on order (but for
\* the order placed on that very day).
C9_OrdersConserved ==
    /\ placed_total = received_total + SumQty(on_order)
    /\ t >= 1 =>
           \A i \in DOMAIN on_order :
               \/ on_order[i][1] > row.ds
               \/ PlacedToday /\ i = Len(on_order)

\* C9 witness: two orders outstanding at once after an earlier receipt.
C9_Witness ==
    /\ Len(on_order) >= 2
    /\ received_total > 0

-----------------------------------------------------------------------------
(* Properties of the risk classification *)

C10_Erratic ==
    /\ risk_row.volatility_class.col
    /\ risk_row.volatility_class.v \in {{"erratic"}, {" Erratic "}}

C10_Seasonal ==
    /\ risk_row.volatility_class.col
    /\ risk_row.volatility_class.v \in {{"seasonal"}, {"SEASONAL"}}

\* C10: the risk of a row is given by the first rule that matches, in the
\* order: days_of_cover missing, HIGH; reorder_now true, HIGH; days_of_cover
\* <= 3, HIGH; volatility class erratic, HIGH; days_of_cover <= 7 or class
\* seasonal, MEDIUM; else LOW.  It is always one of the three levels, and
\* HIGH for reorder_now true with 10 days of cover.
C10_RuleOrder ==
    pc = "scored" =>
        /\ inventory_risk \in {{"LOW"}, {"MEDIUM"}, {"HIGH"}}
        /\ inventory_risk =
             { CASE IsNaN(risk_row.days_of_cover) -> "HIGH"
                 [] ~IsNaN(risk_row.days_of_cover)
                    /\ risk_row.reorder_now = {TRUE} -> "HIGH"
                 [] ~IsNaN(risk_row.days_of_cover)
                    /\ risk_row.reorder_now # {TRUE}
                    /\ Val(risk_row.days_of_cover) <= 300 -> "HIGH"
                 [] ~IsNaN(risk_row.days_of_cover)
                    /\ risk_row.reorder_now # {TRUE}
                    /\ Val(risk_row.days_of_cover) > 300
                    /\ C10_Erratic -> "HIGH"
                 [] ~IsNaN(risk_row.days_of_cover)
                    /\ risk_row.reorder_now # {TRUE}
                    /\ Val(risk_row.days_of_cover) > 300
                    /\ ~C10_Erratic
                    /\ (Val(risk_row.days_of_cover) <= 700 \/ C10_Seasonal)
                        -> "MEDIUM"
                 [] OTHER -> "LOW" }
        /\ (risk_row.reorder_now = {TRUE} /\ risk_row.days_of_cover = {1000})
               => inventory_risk = {"HIGH"}

\* C10 witness: a row with reorder_now true, 10 days of cover and a calm
\* volatility class, classified HIGH by the second rule.
C10_Witness ==
    /\ pc = "scored"
    /\ risk_row.reorder_now = {TRUE}
    /\ risk_row.days_of_cover = {1000}
    /\ risk_row.volatility_class = Column({"Stable"})
    /\ inventory_risk = {"HIGH"}

C11_MissingVolatility ==
    \/ ~risk_row.volatility_class.col
    \/ IsNaN(risk_row.volatility_class.v)

\* C11 as stated: a row whose volatility class is missing (no column, or a
\* null cell) is classified HIGH whatever its days_of_cover and reorder_now.
C11_AsStated ==
    (pc = "scored" /\ C11_MissingVolatility) => inventory_risk = {"HIGH"}

\* C11: a row whose volatility class is missing is classified, the batch is
\* not aborted, and its class is read as neither erratic nor seasonal: HIGH
\* when days_of_cover is missing, reorder_now is true or days_of_cover <= 3,
\* MEDIUM when days_of_cover <= 7, LOW otherwise.
C11_MissingVolatilityByCover ==
    (pc = "scored" /\ C11_MissingVolatility) =>
        inventory_risk =
            { IF \/ IsNaN(risk_row.days_of_cover)
                 \/ risk_row.reorder_now = {TRUE}
                 \/ Val(risk_row.days_of_cover) <= 300
              THEN "HIGH"
              ELSE IF Val(risk_row.days_of_cover) <= 700 THEN "MEDIUM"
              ELSE "LOW" }

\* C11 witness: a row without volatility class, 10 days of cover and no
\* reorder signal, classified LOW.
C11_Witness ==
    /\ pc = "scored"
    /\ ~risk_row.volatility_class.col
    /\ risk_row.days_of_cover = {1000}
    /\ risk_row.reorder_now = {FALSE}
    /\ inventory_risk = {"LOW"}

-----------------------------------------------------------------------------
(* Properties of the procurement optimizer *)

\* optimize has returned an allocation, to its caller or to emergency_plan.
AllocationReturned ==
    /\ pc \in {"optimized", "planned"}
    /\ result.raised = "none"
    /\ ~IsNaN(result.allocation)

AllocationRows == Val(result.allocation)

\* The solver's quantity for the supplier of an allocation row.
SolverQty(r) ==
    solver.x[CHOOSE i \in 1..Len(suppliers_df) :
                suppliers_df[i].supplier_id = r.supplier_id]

SupplierOf(r) ==
    suppliers_df[CHOOSE i \in 1..Len(suppliers_df) :
                    suppliers_df[i].supplier_id = r.supplier_id]

\* The share of the claims, in hundredths: 0.70, and 0.50 in emergency mode.
StatedShare == IF config.mode = "emergency" THEN 50 ELSE 70

\* C12 as stated: in any returned allocation no supplier's ordered_qty
\* exceeds max_share * required_qty.
C12_AsStated ==
    AllocationReturned =>
        \A k \in 1..Len(AllocationRows) :
            100 * AllocationRows[k].ordered_qty <= StatedShare * required_qty

\* C12: in any allocation returned with solver status Optimal, no supplier's
\* quantity exceeds max_share * required_qty (0.70, or 0.50 in emergency
\* mode) before it is rounded, and the reported ordered_qty, rounded to 2
\* decimals, exceeds it by less than 0.005.
C12_ExposureCap ==
    (AllocationReturned /\ solver.status = "Optimal") =>
        \A k \in 1..Len(AllocationRows) :
            LET r == AllocationRows[k]
            IN  /\ 100 * SolverQty(r) <= StatedShare * required_qty
                /\ r.ordered_qty = Round2(SolverQty(r))
                /\ 2 * 100 * (r.ordered_qty - SolverQty(r)) < Unit
                /\ 2 * (100 * r.ordered_qty - StatedShare * required_qty) < Unit

\* C12 witness: an emergency allocation in which a supplier is ordered
\* exactly the share cap, half of the required quantity.
C12_Witness ==
    /\ AllocationReturned
    /\ solver.status = "Optimal"
    /\ config.mode = "emergency"
    /\ required_qty > 0
    /\ \E k \in 1..Len(AllocationRows) :
          2 * SolverQty(AllocationRows[k]) = required_qty

\* C13 as stated: every supplier with ordered_qty > 0 in a returned
\* allocation has ordered_qty >= its min_order_qty, ordered_qty <= its
\* capacity_per_period and used_flag = 1.
C13_AsStated ==
    AllocationReturned =>
        \A k \in 1..Len(AllocationRows) :
            LET r == AllocationRows[k]
            IN  r.ordered_qty > 0 =>
                    /\ r.ordered_qty >= SupplierOf(r).min_order_qty
                    /\ r.ordered_qty <= SupplierOf(r).capacity_per_period
                    /\ r.used_flag = 1

\* C13: in any allocation returned with solver status Optimal, every row is
\* a supplier whose quantity is positive, at least its min_order_qty and at
\* most its capacity_per_period before it is rounded, with used_flag = 1;
\* the reported ordered_qty is that quantity rounded to 2 decimals, less
\* than 0.005 away from it.
C13_MoqAndCapacity ==
    (AllocationReturned /\ solver.status = "Optimal") =>
        /\ \A k \in 1..Len(AllocationRows) :
              LET r == AllocationRows[k]
              IN  /\ SolverQty(r) > 0
                  /\ SolverQty(r) >= SupplierOf(r).min_order_qty
                  /\ SolverQty(r) <= SupplierOf(r).capacity_per_period
                  /\ r.used_flag = 1
                  /\ r.ordered_qty = Round2(SolverQty(r))
                  /\ 2 * 100 * (SolverQty(r) - r.ordered_qty) < Unit
                  /\ 2 * 100 * (r.ordered_qty - SolverQty(r)) < Unit
        /\ \A i \in 1..Len(suppliers_df) :
              solver.x[i] > 0 =>
                  \E k \in 1..Len(AllocationRows) :
                      AllocationRows[k].supplier_id = suppliers_df[i].supplier_id

\* C13 witness: an optimal allocation with one supplier ordered exactly its
\* minimum order quantity and another one ordered as well.
C13_Witness ==
    /\ AllocationReturned
    /\ solver.status = "Optimal"
    /\ Len(AllocationRows) >= 2
    /\ \E k \in 1..Len(AllocationRows) :
          /\ SupplierOf(AllocationRows[k]).min_order_qty > 0
          /\ SolverQty(AllocationRows[k]) =
                 SupplierOf(AllocationRows[k]).min_order_qty

\* optimize has built and solved its model.
Solved ==
    /\ pc \in {"optimized", "planned"}
    /\ suppliers_df # <<>>

\* Order nothing, shortage = required_qty.
OrderNothing ==
    [x |-> [i \in 1..Len(suppliers_df) |-> 0],
     y |-> [i \in 1..Len(suppliers_df) |-> 0],
     shortage |-> required_qty]

\* The residual shortage a returned plan reports.
ResidualShortage ==
    IF pc = "optimized" THEN Val(result.meta).shortage
    ELSE Val(result.residual_shortage)

RECURSIVE OrderedTotal(_, _)
OrderedTotal(rows, k) ==
    IF k = 0 THEN 0 ELSE rows[k].ordered_qty + OrderedTotal(rows, k - 1)

\* C14 as stated: for every non-empty pool and every required_qty, capacity
\* and MOQ the model is feasible, ordering nothing with shortage =
\* required_qty being a feasible assignment, and a returned plan has
\* sum(ordered_qty) + residual shortage >= required_qty with a residual
\* shortage >= 0.
C14_AsStated ==
    Solved =>
        /\ Feasible(OrderNothing, suppliers_df, config, required_qty)
        /\ solver.status = "Optimal"
        /\ AllocationReturned =>
              /\ ResidualShortage >= 0
              /\ OrderedTotal(AllocationRows, Len(AllocationRows))
                    + ResidualShortage >= required_qty

\* C14: for every non-empty pool with a required_qty >= 0 and capacities
\* >= 0 the model is feasible, ordering nothing with shortage = required_qty
\* being a feasible assignment, and the solve ends Optimal; the solver's
\* quantities and shortage then satisfy sum(x) + shortage >= required_qty
\* with shortage >= 0, and a returned plan, whose ordered_qty and shortage
\* are rounded to 2 decimals, has sum(ordered_qty) + residual shortage
\* above required_qty - 0.005 * (number of rows + 1).
C14_SoftDemand ==
    (/\ Solved
     /\ required_qty >= 0
     /\ \A i \in 1..Len(suppliers_df) :
           suppliers_df[i].capacity_per_period >= 0) =>
        /\ Feasible(OrderNothing, suppliers_df, config, required_qty)
        /\ solver.status = "Optimal"
        /\ solver.shortage >= 0
        /\ SumX(solver.x) + solver.shortage >= required_qty
        /\ AllocationReturned =>
              /\ ResidualShortage = Round2(solver.shortage)
              /\ ResidualShortage >= 0
              /\ 2 * 100 * (required_qty
                            - OrderedTotal(AllocationRows, Len(AllocationRows))
                            - ResidualShortage)
                    < Unit * (Len(AllocationRows) + 1)

\* C14 witness: a returned plan that orders what the suppliers can give and
\* leaves a residual shortage.
C14_Witness ==
    /\ AllocationReturned
    /\ solver.status = "Optimal"
    /\ required_qty > 0
    /\ solver.shortage > 0
    /\ SumX(solver.x) + solver.shortage = required_qty

\* C15: when the optimal solution orders from no supplier, optimize does not
\* raise: it returns an allocation with zero rows and a meta with the solver
\* status, a residual shortage equal to required_qty and the objective
\* value, which the empty-pool ValueError cannot be mistaken for.
C15_NoOrderIsNormalResult ==
    (/\ pc = "optimized"
     /\ suppliers_df # <<>>
     /\ solver.status = "Optimal"
     /\ \A i \in 1..Len(suppliers_df) : solver.x[i] = 0) =>
        /\ result.raised = "none"
        /\ result.allocation = {<<>>}
        /\ ~IsNaN(result.meta)
        /\ Val(result.meta).status = "Optimal"
        /\ Val(result.meta).shortage = Round2(required_qty)

\* C17: when the solver reports the model infeasible, optimize raises an
\* error and materialises no allocation, instead of returning rows and a
\* meta with a status that is not Optimal.
C17_InfeasibleIsFatal ==
    (Solved /\ solver.status = "Infeasible") =>
        /\ result.raised # "none"
        /\ IsNaN(result.allocation)

\* The case of scripts/test_cost_optimizer.py: 30000 units in normal mode
\* from suppliers with capacities 50000 and 100000, minimum orders 1000 and
\* 5000, prices 0.12 and 0.10.
C18_Case ==
    /\ pc = "optimized"
    /\ required_qty = 30000 * Unit
    /\ config.mode = "normal"
    /\ Len(suppliers_df) = 2
    /\ suppliers_df[1].capacity_per_period = 50000 * Unit
    /\ suppliers_df[2].capacity_per_period = 100000 * Unit
    /\ suppliers_df[1].min_order_qty = 1000 * Unit
    /\ suppliers_df[2].min_order_qty = 5000 * Unit
    /\ suppliers_df[1].price_per_unit = 12
    /\ suppliers_df[2].price_per_unit = 10

\* C18: in that case the plan has no residual shortage, the cheaper supplier
\* is ordered exactly 21000, the exposure cap 0.70 * 30000, and the other
\* supplier the remaining 9000.
C18_Scenario ==
    C18_Case =>
        /\ result.raised = "none"
        /\ solver.status = "Optimal"
        /\ Val(result.meta).status = "Optimal"
        /\ Val(result.meta).shortage = 0
        /\ Len(AllocationRows) = 2
        /\ AllocationRows[1].supplier_id = suppliers_df[2].supplier_id
        /\ AllocationRows[1].ordered_qty = 21000 * Unit
        /\ AllocationRows[1].used_flag = 1
        /\ AllocationRows[2].supplier_id = suppliers_df[1].supplier_id
        /\ AllocationRows[2].ordered_qty = 9000 * Unit
        /\ AllocationRows[2].used_flag = 1

\* C18 witness: the case solved with every lot at risk of expiry, the plan
\* costing 1.25 * (21000 * 0.10 + 9000 * 0.12) = 3975.
C18_Witness ==
    /\ C18_Case
    /\ pct_at_risk_90 = 100
    /\ result.raised = "none"
    /\ Val(result.meta).objective_value = 3975 * 10000

-----------------------------------------------------------------------------
(* Properties of the shortage sourcing engine *)

Called(callee) == \E i \in 1..Len(calls) : calls[i] = callee

\* C16: optimize called with an empty pool raises its ValueError and returns
\* no plan, without building a model; emergency_plan never calls optimize
\* with zero candidates: when the repository returns no supplier it returns
\* an error result with allocation = None and does not call optimize.
C16_EmptyPool ==
    /\ (pc = "optimized" /\ suppliers_df = <<>>) =>
          /\ result.raised = "ValueError"
          /\ IsNaN(result.allocation)
          /\ IsNaN(result.meta)
          /\ solver = SolverNotRun
    /\ (pc = "optimized" /\ suppliers_df # <<>>) =>
          result.raised # "ValueError"
    /\ pc = "planned" =>
          /\ Called("optimize") => suppliers_df # <<>>
          /\ result.raised # "ValueError"
          /\ supplier_pool = <<>> =>
                /\ ~Called("optimize")
                /\ ~Called("rank")
                /\ result.raised = "none"
                /\ result.returned = "error"
                /\ IsNaN(result.allocation)
                /\ IsNaN(result.ranked_suppliers)
          /\ supplier_pool # <<>> => Called("optimize")

\* C16 witness: emergency_plan for a context whose facility and item have no
\* supplier, answered with the error result.
C16_Witness ==
    /\ pc = "planned"
    /\ supplier_pool = <<>>
    /\ result.returned = "error"
    /\ calls = <<"is_shortage", "get_suppliers">>

\* The first trigger of the claims: days_of_cover <= trigger_doc_days.
CoverTrigger ==
    /\ ~IsNaN(ctx.days_of_cover)
    /\ Val(ctx.days_of_cover) <= ctx.trigger_doc_days

\* The second trigger: a service level is given and is below the threshold.
ServiceTrigger ==
    /\ ~IsNaN(ctx.service_level)
    /\ Val(ctx.service_level) < ctx.service_level_threshold

\* C19: emergency_plan ranks suppliers and calls the optimizer only if the
\* context is a shortage: when neither trigger holds there is no ranking, no
\* optimizer call and no allocation.
C19_OnlyOnShortage ==
    (pc = "planned" /\ ~CoverTrigger /\ ~ServiceTrigger) =>
        /\ ~Called("rank")
        /\ ~Called("optimize")
        /\ IsNaN(result.allocation)

\* C20: is_shortage returns true exactly when days_of_cover <=
\* trigger_doc_days or a service level is given and is below its threshold;
\* the reason is the days_of_cover reason whenever the first condition
\* holds, also when both do, the service_level reason when only the second
\* holds, and "no_shortage_trigger" otherwise.  With days_of_cover = 3 and
\* the default trigger 7 it answers true with the days_of_cover reason.
C20_ShortageRule ==
    pc = "evaluated" =>
        /\ result.shortage = (CoverTrigger \/ ServiceTrigger)
        /\ CoverTrigger =>
              result.reason = [kind |-> "days_of_cover",
                               value |-> Fmt2(Val(ctx.days_of_cover)),
                               limit |-> Fmt2(ctx.trigger_doc_days)]
        /\ (~CoverTrigger /\ ServiceTrigger) =>
              result.reason = [kind |-> "service_level",
                               value |-> Fmt2(Val(ctx.service_level)),
                               limit |-> Fmt2(ctx.service_level_threshold)]
        /\ (~CoverTrigger /\ ~ServiceTrigger) =>
              result.reason.kind = "no_shortage_trigger"
        /\ (ctx.days_of_cover = {3 * 1000} /\ ctx.trigger_doc_days = 7 * 1000) =>
              /\ result.shortage
              /\ result.reason = [kind |-> "days_of_cover", value |-> 3 * 100,
                                   limit |-> 7 * 100]

\* C20 witness: 3 days of cover against the default trigger 7 together with
\* a service level 0.85 below the threshold 0.90, answered with the
\* days_of_cover reason.
C20_Witness ==
    /\ pc = "evaluated"
    /\ ctx.days_of_cover = {3 * 1000}
    /\ ctx.trigger_doc_days = 7 * 1000
    /\ ctx.service_level = {850}
    /\ result.shortage
    /\ result.reason.kind = "days_of_cover"

-----------------------------------------------------------------------------
(* ReorderAgent.compute_reorder_point, the whole call *)

\* No simulation, scoring or procurement call is followed.
IdleOthers ==
    /\ IdleSim
    /\ risk_row = BlankRow
    /\ inventory_risk = NaN
    /\ IdleProc

\* The (facility, item) pairs of a batch, in the order groupby yields them.
ReorderKeys == << <<"fac_a", "amoxicillin">>, <<"fac_a", "paracetamol">> >>

\* The rows of a table that belong to one pair, in order.
RowsOf(rows, key) == SelectSeq(rows, LAMBDA r : r.key = key)

\* The lead_time_days column of the left join on (facility, item): a table
\* cell for every forecast row.  A column both tables carry is renamed
\* lead_time_days_x / lead_time_days_y; a forecast row without a partner gets
\* a missing cell.  The lead-time table holds one row for a pair at most.
merge(f_df, lt_df) ==
    LET both == "lead_time_days" \in f_df.columns
                    /\ "lead_time_days" \in lt_df.columns
        Joined(r) ==
            LET partner == RowsOf(lt_df.rows, r.key)
            IN  IF "lead_time_days" \in lt_df.columns
                THEN [key |-> r.key, forecast |-> r.forecast,
                      lead_time_days |-> IF partner = <<>> THEN NaN
                                         ELSE partner[1].lead_time_days]
                ELSE r
    IN  [columns |-> IF both
                     THEN ((f_df.columns \cup lt_df.columns)
                              \ {"lead_time_days"})
                              \cup {"lead_time_days_x", "lead_time_days_y"}
                     ELSE f_df.columns \cup lt_df.columns,
         rows |-> [i \in 1..Len(f_df.rows) |-> Joined(f_df.rows[i])]]

\* g[col].mean() of a group's cells, which skips the missing ones.
Mean(cells) ==
    LET xs == DropNa(cells)
    IN  IF xs = <<>> THEN NaN ELSE {SeqSum(xs) \div Len(xs)}

\* The column of a group's rows.
ForecastCol(rows) == [i \in 1..Len(rows) |-> rows[i].forecast]

LeadTimeCol(rows) == [i \in 1..Len(rows) |-> rows[i].lead_time_days]

\* The rows appended for the groups keys[1..n], in order.
RECURSIVE Results(_, _, _, _)
Results(df, keys, n, z) ==
    IF n = 0 THEN <<>>
    ELSE LET g == RowsOf(df.rows, keys[n])
             p == compute_reorder_point(ForecastCol(g),
                                        Mean(LeadTimeCol(g)), z)
         IN  IF g = <<>> \/ p.skipped THEN Results(df, keys, n - 1, z)
             ELSE Append(Results(df, keys, n - 1, z),
                         [key |-> keys[n],
                          avg_daily_demand |-> p.avg_daily_demand,
                          lead_time_days |-> p.lead_time_days,
                          safety_stock |-> p.safety_stock,
                          reorder_point |-> p.reorder_point])

\* What a call returns or raises.
ReorderTable(a) ==
    LET df == merge(a.forecast_df, a.lead_time_df)
    IN  IF "lead_time_days" \notin df.columns
        THEN [raised |-> "ValueError", results |-> <<>>]
        ELSE [raised |-> "none",
              results |-> Results(df, ReorderKeys, Len(ReorderKeys),
                                  a.service_level_z)]

\* The caller's tables after the call: merge builds a new frame and the loop
\* only reads it, so the arguments are what they were.
ArgsAddLeadTime(a) ==
    [a EXCEPT !.forecast_df = merge(a.forecast_df, a.lead_time_df)]

ArgsAfterCall(a) == a

(* Inputs *)

\* Forecast columns of one pair, in 1/300 unit: varying, nearly constant,
\* constant, one value.
ReorderSeries == { <<{6}, {18}>>, <<{9}, {10}>>, <<{12}, {12}>>, <<{9}>> }

\* Lead-time cells, in tenths of a day: missing, zero, negative, positive.
LeadCells == { NaN, {0}, {0 - 20}, {7 * 10} }

\* Service levels z, in hundredths: 1.28, 1.65, 2.33.
ServiceLevels == {128, 165, 233}

ForecastRows(key, xs) ==
    [i \in 1..Len(xs) |-> [key |-> key, forecast |-> xs[i],
                           lead_time_days |-> NaN]]

ForecastTables ==
    { [columns |-> {"facility", "item", "forecast"} \cup extra,
       rows |-> ForecastRows(ReorderKeys[1], s1)
                    \o ForecastRows(ReorderKeys[2], s2)] :
        s1 \in ReorderSeries, s2 \in ReorderSeries,
        extra \in {{}, {"lead_time_days"}} }

LeadTimeTables ==
    { [columns |-> {"facility", "item", "lead_time_days"},
       rows |-> << [key |-> ReorderKeys[1], lead_time_days |-> c1],
                   [key |-> ReorderKeys[2], lead_time_days |-> c2] >>] :
        c1 \in LeadCells, c2 \in LeadCells }
    \cup
    { [columns |-> {"facility", "item", "lead_time_days"},
       rows |-> << [key |-> ReorderKeys[1], lead_time_days |-> c1] >>] :
        c1 \in LeadCells }
    \cup
    { [columns |-> {"facility", "item"}, rows |-> <<>>] }

ReorderArgs ==
    [forecast_df : ForecastTables, lead_time_df : LeadTimeTables,
     service_level_z : ServiceLevels]

(* The calls *)

InitReorder ==
    /\ pc = "reorder"
    /\ args \in {{a} : a \in ReorderArgs}
    /\ called_with = NaN
    /\ ret = NaN
    /\ prev = NaN
    /\ loop = NaN
    /\ tasks = NaN
    /\ IdleOthers

\* agent.compute_reorder_point(forecast_df, lead_time_df, service_level_z=z)
ComputeReorderPoint ==
    /\ pc = "reorder"
    /\ called_with' = args
    /\ ret' = {ReorderTable(Val(args))}
    /\ args' = {ArgsAfterCall(Val(args))}
    /\ prev' = IF IsNaN(called_with) THEN NaN
               ELSE {[called_with |-> Val(called_with), ret |-> Val(ret)]}
    /\ pc' = "reordered"
    /\ UNCHANGED <<loop, tasks>>
    /\ UNCHANGED <<simVars, riskVars, procVars>>

\* The caller comes back with the same tables and any service level.
CallAgain ==
    /\ pc = "reordered"
    /\ \E z \in ServiceLevels :
          args' = {[Val(args) EXCEPT !.service_level_z = z]}
    /\ pc' = "reorder"
    /\ UNCHANGED <<called_with, ret, prev, loop, tasks>>
    /\ UNCHANGED <<simVars, riskVars, procVars>>

NextReorder == ComputeReorderPoint \/ CallAgain

SpecReorder == InitReorder /\ [][NextReorder]_vars

-----------------------------------------------------------------------------
(* Claims about the reorder agent *)

\* A call of compute_reorder_point has returned a table.
ReorderReturned ==
    /\ pc = "reordered"
    /\ Val(ret).raised = "none"

ReorderRows == Val(ret).results

\* The lead-time cell a pair has in the lead-time table of the call.
GivenLeadTime(key) ==
    LET partner == RowsOf(Val(called_with).lead_time_df.rows, key)
    IN  IF partner = <<>> THEN NaN ELSE partner[1].lead_time_days

\* C21: the returned table holds exactly the pairs whose lead time is present
\* and positive: a pair with a missing, zero or negative lead time is left
\* out, and every other pair of the batch has its row.
C21_UnusableLeadTimeExcluded ==
    ReorderReturned =>
        \A k \in 1..Len(ReorderKeys) :
            LET key == ReorderKeys[k]
                lt  == GivenLeadTime(key)
            IN  (\E i \in 1..Len(ReorderRows) : ReorderRows[i].key = key)
                    <=> (~IsNaN(lt) /\ Val(lt) > 0)

\* Two calls in a row on the same tables have returned, the second with the
\* larger service level.
LargerServiceLevel ==
    /\ ReorderReturned
    /\ ~IsNaN(prev)
    /\ Val(prev).ret.raised = "none"
    /\ Val(prev).called_with.forecast_df = Val(called_with).forecast_df
    /\ Val(prev).called_with.lead_time_df = Val(called_with).lead_time_df
    /\ Val(prev).called_with.service_level_z
           < Val(called_with).service_level_z

PrevRows == Val(prev).ret.results

\* The forecast values of the pair a returned row is about.
SeriesOf(key) ==
    DropNa(ForecastCol(RowsOf(Val(called_with).forecast_df.rows, key)))

\* Row i of both calls is about the same pair and carries a safety stock.
Comparable(i) ==
    /\ PrevRows[i].key = ReorderRows[i].key
    /\ ~IsNaN(PrevRows[i].safety_stock)
    /\ ~IsNaN(ReorderRows[i].safety_stock)

\* C22 as stated: with the series and the positive lead time fixed, the
\* larger service level gives a strictly larger safety stock and a strictly
\* larger reorder point, for every series.
C22_AsStated ==
    LargerServiceLevel =>
        /\ Len(PrevRows) = Len(ReorderRows)
        /\ \A i \in 1..Len(ReorderRows) :
              (Comparable(i) /\ Val(ReorderRows[i].lead_time_days) > 0) =>
                  /\ Val(ReorderRows[i].safety_stock)
                         > Val(PrevRows[i].safety_stock)
                  /\ Val(ReorderRows[i].reorder_point)
                         > Val(PrevRows[i].reorder_point)

\* C22: with the series and the lead time fixed, the larger service level
\* never gives a smaller safety stock or reorder point; for a series without
\* spread (constant, or of one value) and for a lead time of 0 the safety
\* stock is 0 at every service level and the reorder point does not move.
C22_MonotoneInServiceLevel ==
    LargerServiceLevel =>
        /\ Len(PrevRows) = Len(ReorderRows)
        /\ \A i \in 1..Len(ReorderRows) :
              Comparable(i) =>
                  /\ Val(ReorderRows[i].safety_stock)
                         >= Val(PrevRows[i].safety_stock)
                  /\ Val(ReorderRows[i].reorder_point)
                         >= Val(PrevRows[i].reorder_point)
                  /\ (ScaledVariance(SeriesOf(ReorderRows[i].key)) = 0
                         \/ Val(ReorderRows[i].lead_time_days) = 0) =>
                        /\ Val(ReorderRows[i].safety_stock) = 0
                        /\ Val(PrevRows[i].safety_stock) = 0
                        /\ ReorderRows[i].reorder_point
                               = PrevRows[i].reorder_point

\* The larger service level raised the safety stock of one pair and left that
\* of a pair with a constant series at 0.
C22_Witness ==
    /\ LargerServiceLevel
    /\ Len(ReorderRows) = 2
    /\ Comparable(1)
    /\ Comparable(2)
    /\ Val(ReorderRows[1].safety_stock) > Val(PrevRows[1].safety_stock)
    /\ Val(ReorderRows[1].reorder_point) > Val(PrevRows[1].reorder_point)
    /\ Len(SeriesOf(ReorderRows[2].key)) = 2
    /\ Val(ReorderRows[2].lead_time_days) > 0
    /\ Val(ReorderRows[2].safety_stock) = 0
    /\ Val(PrevRows[2].safety_stock) = 0

-----------------------------------------------------------------------------
(* SupplierRanker.rank, the whole call *)

\* The weights of a ranker built without weights, in hundredths.
DEFAULT_WEIGHTS ==
    [price |-> 30, lead_time |-> 30, reliability |-> 30, risk |-> 10]

MaxPrice(pool) == SetMax({PriceOf(pool[i]) : i \in 1..Len(pool)})

MaxLead(pool) == SetMax({LeadOf(pool[i]) : i \in 1..Len(pool)})

\* The four columns that enter the score, each a fraction <<numerator,
\* denominator>>.  price_norm and lead_time_norm are divided by the column's
\* maximum; reliability_risk and risk_norm are the row's own values, which
\* the table holds in hundredths.
price_norm(r, pool) == <<PriceOf(r), MaxPrice(pool)>>

lead_time_norm(r, pool) == <<LeadOf(r), MaxLead(pool)>>

reliability_riskOverMax(r, pool) ==
    <<100 - r.reliability_score,
      SetMax({100 - pool[i].reliability_score : i \in 1..Len(pool)})>>

reliability_risk(r, pool) == <<100 - r.reliability_score, 100>>

risk_norm(r, pool) == <<r.risk_score, 100>>

\* The caller's table after the call: rank works on df.copy().
ArgsAfterRank(a, out) == a

(* Inputs *)

\* A supplier with the metrics of SupplierA.
SupplierA2 == SupplierRow("A2", 10, 50, 10, 90, 10, 20, 0, FALSE)

RankSuppliers ==
    {SupplierA, SupplierA2, SupplierB, SupplierC, SUP_001, SUP_002}

\* Number of rows of a table to rank.
MaxPool == 3

\* Tables of one to MaxPool different suppliers, in any order.
RankPools ==
    UNION {{p \in [1..n -> RankSuppliers] :
               \A i, j \in 1..n : i # j => p[i] # p[j]} : n \in 1..MaxPool}

RankArgs == [df : RankPools, weights : {DEFAULT_WEIGHTS, EMERGENCY_WEIGHTS}]

(* The call *)

InitRank ==
    /\ pc = "rank"
    /\ args \in {{a} : a \in RankArgs}
    /\ called_with = NaN
    /\ ret = NaN
    /\ prev = NaN
    /\ loop = NaN
    /\ tasks = NaN
    /\ IdleOthers

\* SupplierRanker(weights).rank(df)
Rank ==
    /\ pc = "rank"
    /\ \E out \in rank(Val(args).df, Val(args).weights) :
          /\ ret' = {out}
          /\ args' = {ArgsAfterRank(Val(args), out)}
    /\ called_with' = args
    /\ pc' = "ranked"
    /\ UNCHANGED <<prev, loop, tasks>>
    /\ UNCHANGED <<simVars, riskVars, procVars>>

NextRank == Rank

SpecRank == InitRank /\ [][NextRank]_vars

-----------------------------------------------------------------------------
(* Claims about the supplier ranker *)

RankedPool == Val(called_with).df

RankedRows == Val(ret)

\* The input row a ranked row was made from.
InputRow(r) ==
    CHOOSE q \in {RankedPool[i] : i \in 1..Len(RankedPool)} :
        q.supplier_id = r.supplier_id

\* The four fractions of a ranked row.
Norms(r) ==
    << price_norm(InputRow(r), RankedPool),
       lead_time_norm(InputRow(r), RankedPool),
       reliability_risk(InputRow(r), RankedPool),
       risk_norm(InputRow(r), RankedPool) >>

\* The weighted sum of the four fractions, times 10000 * max price * max lead
\* time, the scale of supplier_score.
WeightedSum(r) ==
    LET w == Val(called_with).weights
        s == 100 * MaxPrice(RankedPool) * MaxLead(RankedPool)
        m == Norms(r)
    IN  w.price * m[1][1] * (s \div m[1][2])
        + w.lead_time * m[2][1] * (s \div m[2][2])
        + w.reliability * m[3][1] * (s \div m[3][2])
        + w.risk * m[4][1] * (s \div m[4][2])

\* The rows whose fraction k is the largest of the table.
Worst(k) ==
    {i \in 1..Len(RankedRows) :
        \A j \in 1..Len(RankedRows) :
            Norms(RankedRows[j])[k][1] * Norms(RankedRows[i])[k][2]
                <= Norms(RankedRows[i])[k][1] * Norms(RankedRows[j])[k][2]}

\* C24 as stated: each of the four fractions is the metric over its maximum
\* in the table, so that it is 1 for the worst row of every metric, and the
\* score is their weighted sum.
C24_AsStated ==
    pc = "ranked" =>
        \A i \in 1..Len(RankedRows) :
            /\ RankedRows[i].supplier_score = WeightedSum(RankedRows[i])
            /\ \A k \in 1..4 :
                  i \in Worst(k) =>
                      Norms(RankedRows[i])[k][1] = Norms(RankedRows[i])[k][2]

\* C24: the score is the weighted sum of four values: the price and the lead
\* time (days plus std) over their maximum in the table, which are 1 for the
\* worst row, and 1 - reliability_score and risk_score as the table gives
\* them, whatever the other rows hold.
C24_WeightedSum ==
    pc = "ranked" =>
        \A i \in 1..Len(RankedRows) :
            LET r == RankedRows[i]
                m == Norms(r)
            IN  /\ r.supplier_score = WeightedSum(r)
                /\ \A k \in 1..2 : i \in Worst(k) => m[k][1] = m[k][2]
                /\ \A k \in 1..2 : m[k][1] <= m[k][2]
                /\ m[3] = <<100 - r.reliability_score, 100>>
                /\ m[4] = <<r.risk_score, 100>>

\* A table of three rows is ranked whose dearest row has price fraction 1 and
\* whose least reliable row has a reliability fraction below 1.
C24_Witness ==
    /\ pc = "ranked"
    /\ Len(RankedRows) = 3
    /\ \E i \in Worst(1) :
          /\ Norms(RankedRows[i])[1][1] = Norms(RankedRows[i])[1][2]
          /\ RankedRows[i].supplier_score = WeightedSum(RankedRows[i])
    /\ \E i \in Worst(3) :
          Norms(RankedRows[i])[3][1] < Norms(RankedRows[i])[3][2]

\* A ranked row without the columns rank adds.
InputColumns(r) == [f \in DOMAIN InputRow(r) |-> r[f]]

\* C25: rank returns exactly the rows it was given, each once, in order of
\* non-decreasing supplier_score, with a dense rank: 1 for the lowest score,
\* the same rank for equal scores, the next integer for the next score; the
\* caller's table is as it was passed.
C25_SortedDenseRank ==
    pc = "ranked" =>
        LET n == Len(RankedRows)
        IN  /\ n = Len(RankedPool)
            /\ \A i \in 1..n :
                  Cardinality({j \in 1..n :
                                 InputColumns(RankedRows[j]) = RankedPool[i]})
                      = 1
            /\ RankedRows[1].rank = 1
            /\ \A i \in 1..(n - 1) :
                  /\ RankedRows[i].supplier_score
                         <= RankedRows[i + 1].supplier_score
                  /\ RankedRows[i + 1].rank =
                         IF RankedRows[i].supplier_score
                                = RankedRows[i + 1].supplier_score
                         THEN RankedRows[i].rank
                         ELSE RankedRows[i].rank + 1
            /\ args = called_with

\* Three rows are ranked, two of them with the same score: ranks 1, 1, 2.
C25_Witness ==
    /\ pc = "ranked"
    /\ Len(RankedRows) = 3
    /\ RankedRows[1].supplier_score = RankedRows[2].supplier_score
    /\ RankedRows[2].supplier_score < RankedRows[3].supplier_score
    /\ RankedRows[2].rank = 1
    /\ RankedRows[3].rank = 2
    /\ RankedPool[1].supplier_id = RankedRows[3].supplier_id
    /\ args = called_with

-----------------------------------------------------------------------------
(* InventorySimulationAgent.simulate on a batch of keys, and on each key alone *)

\* Number of dated rows each key has in the batch.
BatchDays == 3

\* The locals of the loop before the first group.
FreshLocals ==
    [on_hand |-> 0, on_order |-> <<>>, rp |-> NaN, avgd |-> NaN,
     can_order |-> FALSE, t |-> 0]

GroupStartKeepOrders(loc, g) ==
    [on_hand |-> StartingStock(g.stock),
     on_order |-> loc.on_order,
     rp |-> GroupParam(g.reorder.reorder_point),
     avgd |-> GroupParam(g.reorder.avg_daily_demand),
     can_order |-> CanOrder(GroupParam(g.reorder.reorder_point),
                            GroupParam(g.reorder.avg_daily_demand)),
     t |-> 0]

\* The locals at the top of a group's iteration: all of them are assigned
\* from the group's own rows.
GroupStart(loc, g) ==
    [on_hand |-> StartingStock(g.stock),
     on_order |-> <<>>,
     rp |-> GroupParam(g.reorder.reorder_point),
     avgd |-> GroupParam(g.reorder.avg_daily_demand),
     can_order |-> CanOrder(GroupParam(g.reorder.reorder_point),
                            GroupParam(g.reorder.avg_daily_demand)),
     t |-> 0]

\* One iteration of `for t in range(len(g))` on the locals loc: the locals
\* after it and the row appended.  Dates are days since the first date.
DayStep(loc, g, minq) ==
    LET d           == loc.t
        demand      == DemandOf(g.forecast[loc.t + 1])
        lt_days     == LtDays(ResolveLeadTime(g.lead_time, g.reorder.lead_time))
        recv        == SumQty(Arriving(loc.on_order, d))
        remaining   == StillOnOrder(loc.on_order, d)
        stock       == ReceiveThenConsume(loc.on_hand, recv, demand)
        out         == SumQty(remaining)
        inv_pos     == InvPosition(stock, out)
        reorder_now == ReorderNow(loc.can_order, inv_pos, loc.rp)
        order_qty   == IF reorder_now THEN OrderQty(minq, Val(loc.avgd)) ELSE 0
        placed      == reorder_now /\ order_qty > 0
    IN  [loc |-> [loc EXCEPT
                    !.on_hand = stock,
                    !.on_order = IF placed
                                 THEN Append(remaining, <<d + lt_days, order_qty>>)
                                 ELSE remaining,
                    !.t = loc.t + 1],
         row |-> [key |-> g.key,
                  ds |-> d,
                  forecast |-> demand,
                  stock_on_hand |-> Round2(stock),
                  inventory_position |-> Round2(inv_pos),
                  days_of_cover |-> DaysOfCover(stock, Denom(loc.avgd, demand)),
                  reorder_point |-> IF IsNaN(loc.rp) THEN NaN
                                    ELSE {Round2(Val(loc.rp))},
                  lead_time_days |-> lt_days,
                  reorder_now |-> reorder_now,
                  order_qty |-> Round2(order_qty),
                  order_arrival_ds |-> IF reorder_now THEN {d + lt_days} ELSE NaT,
                  outstanding_orders_qty |-> Round2(out)]]

\* The groups in the order the loop takes them: f is sorted by facility and
\* item before the groupby, whatever the order of the rows passed.
RECURSIVE SortedGroups(_, _)
SortedGroups(groups, n) ==
    IF n = 0 THEN <<>>
    ELSE SortedGroups(groups, n - 1)
            \o SelectSeq(groups, LAMBDA g : g.key = ReorderKeys[n])

(* Inputs *)

\* The merged rows of one key: its forecast cells, its stock cell and its
\* reorder_df row.  forecast_df has no lead_time_days column, reorder_df has.
Group(key, forecast, stock, reorder) ==
    [key |-> key, forecast |-> forecast, stock |-> stock, reorder |-> reorder,
     lead_time |-> NoColumn]

GroupsOf(key) ==
    { Group(key, <<{100 * Unit}, {100 * Unit}, {100 * Unit}>>, {500 * Unit},
            [reorder_point |-> {700 * Unit}, avg_daily_demand |-> {100 * Unit},
             lead_time |-> Column({7 * 10})]),
      Group(key, <<{40 * Unit + 2}, {}, {250 * Unit + 1}>>, {30 * Unit + 1},
            [reorder_point |-> {120 * Unit + 1},
             avg_daily_demand |-> {40 * Unit + 2},
             lead_time |-> Column({10})]),
      Group(key, <<{100 * Unit}, {0}, {100 * Unit}>>, NaN, NoReorderRow),
      Group(key, <<{1}, {1}, {1}>>, {0 - 5 * Unit},
            [reorder_point |-> {0}, avg_daily_demand |-> {100 * Unit},
             lead_time |-> Column({0 - 14})]) }

\* The tables of a call: one key, or both keys in either order of rows.
Batches ==
    { <<g>> : g \in GroupsOf(ReorderKeys[1]) \cup GroupsOf(ReorderKeys[2]) }
    \cup { <<g1, g2>> : g1 \in GroupsOf(ReorderKeys[1]),
                        g2 \in GroupsOf(ReorderKeys[2]) }
    \cup { <<g2, g1>> : g1 \in GroupsOf(ReorderKeys[1]),
                        g2 \in GroupsOf(ReorderKeys[2]) }

BatchKeys == {Val(args).groups[i].key : i \in 1..Len(Val(args).groups)}

GroupOfKey(key) ==
    CHOOSE g \in {Val(args).groups[i] : i \in 1..Len(Val(args).groups)} :
        g.key = key

LoopGroups == SortedGroups(Val(args).groups, Len(ReorderKeys))

(* The loop of one call on the whole batch *)

InitBatch ==
    /\ pc = "batch"
    /\ \E b \in Batches :
          /\ args = {[groups |-> b, min_order_qty |-> 0]}
          /\ tasks = {[key \in {b[i].key : i \in 1..Len(b)} |->
                         [begun |-> FALSE, loc |-> FreshLocals, rows |-> <<>>]]}
    /\ loop = {[g |-> 0, in_group |-> FALSE, loc |-> FreshLocals, rows |-> <<>>]}
    /\ called_with = NaN
    /\ ret = NaN
    /\ prev = NaN
    /\ IdleOthers

\* The top of an iteration of the groupby loop.
BeginGroup ==
    /\ pc = "batch"
    /\ ~Val(loop).in_group
    /\ Val(loop).g < Len(LoopGroups)
    /\ loop' = {[Val(loop) EXCEPT
                   !.g = @ + 1,
                   !.in_group = TRUE,
                   !.loc = GroupStart(@, LoopGroups[Val(loop).g + 1])]}
    /\ UNCHANGED <<pc, args, called_with, ret, prev, tasks>>
    /\ UNCHANGED <<simVars, riskVars, procVars>>

\* One day of the current group.
BatchDay ==
    /\ pc = "batch"
    /\ Val(loop).in_group
    /\ LET step == DayStep(Val(loop).loc, LoopGroups[Val(loop).g],
                           Val(args).min_order_qty)
       IN  loop' = {[Val(loop) EXCEPT
                       !.loc = step.loc,
                       !.rows = Append(@, step.row),
                       !.in_group = step.loc.t < BatchDays]}
    /\ UNCHANGED <<pc, args, called_with, ret, prev, tasks>>
    /\ UNCHANGED <<simVars, riskVars, procVars>>

\* return pd.DataFrame(rows)
ReturnBatch ==
    /\ pc = "batch"
    /\ ~Val(loop).in_group
    /\ Val(loop).g = Len(LoopGroups)
    /\ ret' = {Val(loop).rows}
    /\ called_with' = args
    /\ pc' = "batch_done"
    /\ UNCHANGED <<args, prev, loop, tasks>>
    /\ UNCHANGED <<simVars, riskVars, procVars>>

(* One call for each key alone, run as tasks of their own *)

TaskBegin(key) ==
    /\ ~Val(tasks)[key].begun
    /\ tasks' = {[Val(tasks) EXCEPT
                    ![key] = [begun |-> TRUE,
                              loc |-> GroupStart(@.loc, GroupOfKey(key)),
                              rows |-> <<>>]]}
    /\ UNCHANGED <<pc, args, called_with, ret, prev, loop>>
    /\ UNCHANGED <<simVars, riskVars, procVars>>

TaskDay(key) ==
    /\ Val(tasks)[key].begun
    /\ Val(tasks)[key].loc.t < BatchDays
    /\ LET step == DayStep(Val(tasks)[key].loc, GroupOfKey(key),
                           Val(args).min_order_qty)
       IN  tasks' = {[Val(tasks) EXCEPT
                        ![key] = [begun |-> TRUE, loc |-> step.loc,
                                  rows |-> Append(@.rows, step.row)]]}
    /\ UNCHANGED <<pc, args, called_with, ret, prev, loop>>
    /\ UNCHANGED <<simVars, riskVars, procVars>>

Task == \E key \in BatchKeys : TaskBegin(key) \/ TaskDay(key)

NextBatch == BeginGroup \/ BatchDay \/ ReturnBatch \/ Task

SpecBatch == InitBatch /\ [][NextBatch]_vars

-----------------------------------------------------------------------------
(* Claims about keys simulated together and apart *)

\* The rows the batch loop has appended for a key so far.
BatchRowsOf(key) == SelectSeq(Val(loop).rows, LAMBDA r : r.key = key)

TaskDone(key) == Val(tasks)[key].loc.t = BatchDays /\ Val(tasks)[key].begun

\* C26: the rows a key gets in the batch are the rows it gets when it is
\* simulated alone as a task of its own, whatever other key is in the batch,
\* in whatever order the rows were passed and however the tasks and the batch
\* loop are interleaved: at every moment the two row lists agree as far as
\* both have got, and at the end they are equal.
C26_KeysIndependent ==
    pc \in {"batch", "batch_done"} =>
        \A key \in BatchKeys :
            LET br == BatchRowsOf(key)
                tr == Val(tasks)[key].rows
            IN  /\ \A i \in 1..Min(Len(br), Len(tr)) : br[i] = tr[i]
                /\ (pc = "batch_done" /\ TaskDone(key)) =>
                       br = tr /\ Len(br) = BatchDays

\* A batch of two keys has returned and both tasks have ended; the key first
\* in the loop ended with an order still on its way, the second key ordered.
C26_Witness ==
    /\ pc = "batch_done"
    /\ Len(LoopGroups) = 2
    /\ \A key \in BatchKeys : TaskDone(key)
    /\ Val(tasks)[ReorderKeys[1]].loc.on_order # <<>>
    /\ \E i \in 1..BatchDays : BatchRowsOf(ReorderKeys[2])[i].reorder_now
    /\ Val(args).groups[1].key = ReorderKeys[2]

-----------------------------------------------------------------------------
(* FEFOAllocator.allocate *)

\* The one row returned when there is nothing to allocate.
NO_STOCK ==
    << [lot_id |-> "None", expiry_date |-> NaT, allocated_qty |-> 0,
        status |-> "NO_STOCK"] >>

\* a sorts before b: by expiry date, rows without a date last.
ExpiryLeq(a, b) ==
    \/ IsNaN(b.expiry_date)
    \/ ~IsNaN(a.expiry_date) /\ Val(a.expiry_date) <= Val(b.expiry_date)

SortByExpiryAsGiven(lots) == {lots}

\* df.sort_values("expiry_date"): the orders the sort can return, rows of
\* equal date in any order.
SortByExpiry(lots) ==
    LET n == Len(lots)
    IN  {[i \in 1..n |-> lots[p[i]]] :
           p \in {q \in [1..n -> 1..n] :
                    /\ \A i, j \in 1..n : i # j => q[i] # q[j]
                    /\ \A i \in 1..(n - 1) :
                          ExpiryLeq(lots[q[i]], lots[q[i + 1]])}}

\* The rows appended from lot i of the sorted table on, remaining_qty being
\* what is still required, and the UNFULFILLED row after the last lot.
RECURSIVE FefoRows(_, _, _)
FefoRows(df, i, remaining_qty) ==
    IF i > Len(df) \/ remaining_qty <= 0
    THEN IF remaining_qty > 0
         THEN << [lot_id |-> "UNFULFILLED", expiry_date |-> NaT,
                  allocated_qty |-> Round2(remaining_qty),
                  status |-> "INSUFFICIENT_STOCK"] >>
         ELSE <<>>
    ELSE IF df[i].qty_on_hand <= 0 THEN FefoRows(df, i + 1, remaining_qty)
    ELSE LET take_qty == Min(df[i].qty_on_hand, remaining_qty)
         IN  << [lot_id |-> df[i].lot_id,
                 expiry_date |-> df[i].expiry_date,
                 allocated_qty |-> Round2(take_qty),
                 status |-> "ALLOCATED"] >>
             \o FefoRows(df, i + 1, remaining_qty - take_qty)

\* allocate(lots_df, required_qty): the tables it can return.
fefo_allocate(lots_df, req) ==
    IF lots_df = <<>> \/ req <= 0 THEN {NO_STOCK}
    ELSE {FefoRows(df, 1, req) : df \in SortByExpiry(lots_df)}

(* Inputs *)

Lot(id, expiry, qty) ==
    [lot_id |-> id, expiry_date |-> expiry, qty_on_hand |-> qty]

\* Lots: dates in days, quantities in 1/300 unit; two lots of one date, a lot
\* without a date, an empty lot and a lot with a negative quantity.
Lots ==
    { Lot("L1", {30}, 100 * Unit), Lot("L2", {10}, 40 * Unit + 1),
      Lot("L3", {10}, 25 * Unit), Lot("L4", NaT, 50 * Unit),
      Lot("L5", {20}, 0 - 5 * Unit), Lot("L6", {5}, 0) }

\* Number of rows of a lot table.
MaxLots == 3

LotTables ==
    UNION {{p \in [1..n -> Lots] :
               \A i, j \in 1..n : i # j => p[i] # p[j]} : n \in 0..MaxLots}

FefoRequiredQtys == {0 - 10 * Unit, 0, 30 * Unit, 120 * Unit + 1, 500 * Unit}

(* The call *)

InitFefo ==
    /\ pc = "fefo"
    /\ args \in {{[lots_df |-> l, required_qty |-> q]} :
                    l \in LotTables, q \in FefoRequiredQtys}
    /\ called_with = NaN
    /\ ret = NaN
    /\ prev = NaN
    /\ loop = NaN
    /\ tasks = NaN
    /\ IdleOthers

\* FEFOAllocator().allocate(lots_df, required_qty)
FefoAllocate ==
    /\ pc = "fefo"
    /\ ret' \in {{out} : out \in fefo_allocate(Val(args).lots_df,
                                               Val(args).required_qty)}
    /\ called_with' = args
    /\ pc' = "fefo_done"
    /\ UNCHANGED <<args, prev, loop, tasks>>
    /\ UNCHANGED <<simVars, riskVars, procVars>>

NextFefo == FefoAllocate

SpecFefo == InitFefo /\ [][NextFefo]_vars

-----------------------------------------------------------------------------
(* Claims about the FEFO allocator *)

\* allocate has returned for a table with lots and a positive requirement.
FefoFilled ==
    /\ pc = "fefo_done"
    /\ Val(called_with).lots_df # <<>>
    /\ Val(called_with).required_qty > 0

FefoOut == Val(ret)

FefoLots == {Val(called_with).lots_df[i] : i \in 1..Len(Val(called_with).lots_df)}

\* The returned rows of a status.
RowsWith(status) == SelectSeq(FefoOut, LAMBDA r : r.status = status)

RECURSIVE SumAllocated(_)
SumAllocated(rows) ==
    IF rows = <<>> THEN 0
    ELSE Head(rows).allocated_qty + SumAllocated(Tail(rows))

\* stock the lots hold that can be allocated
RECURSIVE SumStock(_)
SumStock(S) ==
    IF S = {} THEN 0
    ELSE LET l == CHOOSE x \in S : TRUE
         IN  Max(0, l.qty_on_hand) + SumStock(S \ {l})

\* l expires strictly before m; a lot without a date expires after all dated.
ExpiresBefore(l, m) ==
    /\ ~IsNaN(l.expiry_date)
    /\ IsNaN(m.expiry_date) \/ Val(l.expiry_date) < Val(m.expiry_date)

\* The ALLOCATED rows of a lot (one at most).
RowsOfLot(l) == SelectSeq(FefoOut, LAMBDA r : r.lot_id = l.lot_id)

\* What the earlier-expiring lots hold.
StockBefore(l) == SumStock({m \in FefoLots : ExpiresBefore(m, l)})

\* What the lots expiring no later than l hold, l left out.
StockNotAfter(l) == SumStock({m \in FefoLots \ {l} : ~ExpiresBefore(l, m)})

\* The greedy fill in expiry order, told of the rows as they are reported:
\* a lot has a row only if it holds stock and the earlier lots do not cover
\* the requirement, and then every earlier lot with stock has a row with all
\* it holds; a lot's row holds min(qty_on_hand, still required), where what
\* is still required lies between what the lots of an earlier or the same
\* date leave and what the lots of an earlier date leave; the remainder is
\* in one last UNFULFILLED row.
GreedyByExpiry ==
    LET req == Val(called_with).required_qty
    IN  /\ \A l \in FefoLots :
              /\ Len(RowsOfLot(l)) <= 1
              /\ Len(RowsOfLot(l)) = 1 =>
                    /\ l.qty_on_hand > 0
                    /\ StockBefore(l) < req
                    /\ RowsOfLot(l)[1].status = "ALLOCATED"
                    /\ RowsOfLot(l)[1].allocated_qty
                           <= Round2(Min(l.qty_on_hand, req - StockBefore(l)))
                    /\ RowsOfLot(l)[1].allocated_qty
                           >= Round2(Min(l.qty_on_hand,
                                         Max(0, req - StockNotAfter(l))))
                    /\ \A m \in FefoLots :
                          (ExpiresBefore(m, l) /\ m.qty_on_hand > 0) =>
                              /\ Len(RowsOfLot(m)) = 1
                              /\ RowsOfLot(m)[1].allocated_qty
                                     = Round2(m.qty_on_hand)
              /\ (l.qty_on_hand > 0 /\ StockNotAfter(l) < req) =>
                    Len(RowsOfLot(l)) = 1
        /\ Len(RowsWith("ALLOCATED")) + Len(RowsWith("INSUFFICIENT_STOCK"))
               = Len(FefoOut)
        /\ Len(RowsWith("INSUFFICIENT_STOCK"))
               = (IF SumStock(FefoLots) < req THEN 1 ELSE 0)
        /\ SumStock(FefoLots) < req =>
              /\ FefoOut[Len(FefoOut)].lot_id = "UNFULFILLED"
              /\ FefoOut[Len(FefoOut)].allocated_qty
                     = Round2(req - SumStock(FefoLots))

\* C27 as stated: the fill is greedy in expiry order and the quantities of
\* the returned rows, the UNFULFILLED row included, add up to required_qty.
C27_AsStated ==
    FefoFilled =>
        /\ GreedyByExpiry
        /\ SumAllocated(FefoOut) = Val(called_with).required_qty

\* C27: the fill is greedy in expiry order, and the reported quantities, each
\* rounded to 2 decimals, add up to required_qty to within the rounding of a
\* row (1/300 unit, the most that Round2 moves a quantity) times the rows.
C27_GreedyFill ==
    FefoFilled =>
        /\ GreedyByExpiry
        /\ SumAllocated(FefoOut) - Val(called_with).required_qty
               \in (0 - Len(FefoOut))..Len(FefoOut)

\* Three lots given out of expiry order: the earliest is taken whole, the
\* next in part, the last not at all.
C27_Witness ==
    /\ FefoFilled
    /\ Len(Val(called_with).lots_df) = 3
    /\ Len(FefoOut) = 2
    /\ FefoOut[1].lot_id = Val(called_with).lots_df[3].lot_id
    /\ FefoOut[1].allocated_qty = Round2(Val(called_with).lots_df[3].qty_on_hand)
    /\ FefoOut[2].lot_id = Val(called_with).lots_df[1].lot_id
    /\ FefoOut[2].allocated_qty < Val(called_with).lots_df[1].qty_on_hand
    /\ FefoOut[2].status = "ALLOCATED"

-----------------------------------------------------------------------------
(* AllocationEngine.allocate *)

\* Maximum shares of required_qty for one supplier, in hundredths.
NORMAL_MAX_SHARE == 7 * 10

EMERGENCY_MAX_SHARE == 5 * 10

max_shareAlwaysNormal(mode) == NORMAL_MAX_SHARE

max_share(mode) ==
    IF mode = "emergency" THEN EMERGENCY_MAX_SHARE ELSE NORMAL_MAX_SHARE

RECURSIVE Gcd(_, _)
Gcd(a, b) == IF b = 0 THEN a ELSE Gcd(b, a % b)

\* A common multiple of the scores of the rows 1..n.
RECURSIVE ScoreLcm(_, _)
ScoreLcm(df, n) ==
    IF n = 0 THEN 1
    ELSE LET m == ScoreLcm(df, n - 1)
             s == df[n].supplier_score
         IN  (m * s) \div Gcd(m, s)

\* weight = (1 / supplier_score) / sum of these: the fraction
\* InvScore(df, i) / WeightDenom(df).
InvScore(df, i) == ScoreLcm(df, Len(df)) \div df[i].supplier_score

WeightDenom(df) == SumTo([i \in 1..Len(df) |-> InvScore(df, i)], Len(df))

\* round(x / d, 2) for a quantity x / d of 1/300 unit: the hundredths next to
\* it, both of them when it lies halfway.
RoundQ(x, d) ==
    LET c == x \div (3 * d)
        r == x - 3 * d * c
    IN  CASE 2 * r < 3 * d -> {3 * c}
          [] 2 * r > 3 * d -> {3 * c + 3}
          [] OTHER -> {3 * c, 3 * c + 3}

UnallocatedRow(q, mode) ==
    [supplier_id |-> "UNALLOCATED", allocated_qty |-> q,
     supplier_score |-> NaN, mode |-> mode]

\* The tables the loop can build from row k on.  remaining is remaining_qty
\* times WeightDenom(df), so that every quantity of the loop is a whole
\* number.  The last supplier's proposal required_qty * weight and the
\* remaining quantity are equal as fractions when every supplier before it
\* got its proposal; the floats differ by a rounding error of either sign or
\* by none, so the loop ends with remaining_qty 0.0 or with a positive
\* remainder below any hundredth, which is reported as 0.0.
RECURSIVE EngineRows(_, _, _, _, _)
EngineRows(df, k, remaining, req, mode) ==
    LET d == WeightDenom(df)
    IN  IF k > Len(df)
        THEN IF remaining > 0
             THEN {<<UnallocatedRow(q, mode)>> : q \in RoundQ(remaining, d)}
             ELSE {<<>>}
        ELSE
          LET supplier_cap == Min(df[k].capacity_per_period * d,
                                  (req * max_share(mode) * d) \div 100)
              proposed_qty == req * InvScore(df, k)
              allocated_qty == Min(Min(proposed_qty, supplier_cap), remaining)
              residue == /\ req > 0
                         /\ Len(df) > 1
                         /\ allocated_qty = proposed_qty
                         /\ proposed_qty = remaining
              rest == IF remaining - allocated_qty <= 0
                      THEN IF residue
                           THEN {<<>>, <<UnallocatedRow(0, mode)>>}
                           ELSE {<<>>}
                      ELSE EngineRows(df, k + 1, remaining - allocated_qty,
                                      req, mode)
          IN  IF allocated_qty < df[k].min_order_qty * d
              THEN EngineRows(df, k + 1, remaining, req, mode)
              ELSE {<<[supplier_id |-> df[k].supplier_id,
                       allocated_qty |-> q,
                       supplier_score |-> {df[k].supplier_score},
                       mode |-> mode]>> \o r :
                      q \in RoundQ(allocated_qty, d), r \in rest}

\* allocate(ranked_df, required_qty, mode): what it can return or raise.
allocate(ranked_df, req, mode) ==
    IF ranked_df = <<>> THEN {[raised |-> "ValueError", rows |-> <<>>]}
    ELSE {[raised |-> "none", rows |-> r] :
            r \in EngineRows(ranked_df, 1, req * WeightDenom(ranked_df),
                             req, mode)}

(* Inputs *)

RankedRow(id, score, cap, moq) ==
    [supplier_id |-> id, supplier_score |-> score,
     capacity_per_period |-> cap, min_order_qty |-> moq]

\* Ranked suppliers: scores in hundredths, quantities in 1/300 unit.
EngineSuppliers ==
    { RankedRow("S1", 50, 1000 * Unit, 0),
      RankedRow("S2", 100, 1000 * Unit, 10),
      RankedRow("S3", 50, 14, 0),
      RankedRow("S4", 25, 1000 * Unit, 50),
      RankedRow("S5", 100, 1000 * Unit, 0) }

\* Number of rows of a ranked table.
MaxRanked == 3

\* Tables in the order rank returns them, by non-decreasing score.
RankedTables ==
    UNION {{p \in [1..n -> EngineSuppliers] :
               /\ \A i, j \in 1..n : i # j => p[i] # p[j]
               /\ \A i \in 1..(n - 1) :
                     p[i].supplier_score <= p[i + 1].supplier_score} :
           n \in 0..MaxRanked}

\* required_qty, in 1/300 unit: multiples of 10, so that the share of
\* required_qty is a whole number.
EngineRequiredQtys == {0 - 10, 0, 20, 40, 100, 1000}

Modes == {"normal", "emergency", "surge"}

(* The call *)

InitEngine ==
    /\ pc = "allocate"
    /\ args \in {{[ranked_df |-> df, required_qty |-> q, mode |-> m]} :
                    df \in RankedTables, q \in EngineRequiredQtys,
                    m \in Modes}
    /\ called_with = NaN
    /\ ret = NaN
    /\ prev = NaN
    /\ loop = NaN
    /\ tasks = NaN
    /\ IdleOthers

\* AllocationEngine().allocate(ranked_df, required_qty, mode)
EngineAllocate ==
    /\ pc = "allocate"
    /\ ret' \in {{out} : out \in allocate(Val(args).ranked_df,
                                          Val(args).required_qty,
                                          Val(args).mode)}
    /\ called_with' = args
    /\ pc' = "allocated"
    /\ UNCHANGED <<args, prev, loop, tasks>>
    /\ UNCHANGED <<simVars, riskVars, procVars>>

NextEngine == EngineAllocate

SpecEngine == InitEngine /\ [][NextEngine]_vars

-----------------------------------------------------------------------------
(* Claims about the allocation engine *)

\* allocate has returned a table for a requirement that is not negative.
EngineReturned ==
    /\ pc = "allocated"
    /\ Val(ret).raised = "none"
    /\ Val(called_with).required_qty >= 0

EngineOut == Val(ret).rows

SupplierRows == SelectSeq(EngineOut, LAMBDA r : r.supplier_id # "UNALLOCATED")

UnallocatedRows == SelectSeq(EngineOut, LAMBDA r : r.supplier_id = "UNALLOCATED")

\* The ranked row a returned row is about.
RankedRowOf(r) ==
    CHOOSE q \in {Val(called_with).ranked_df[i] :
                    i \in 1..Len(Val(called_with).ranked_df)} :
        q.supplier_id = r.supplier_id

\* min(capacity_per_period, max_share * required_qty) of a returned row, with
\* the share the claim gives.
StatedCap(r) ==
    Min(RankedRowOf(r).capacity_per_period,
        (Val(called_with).required_qty
            * (IF Val(called_with).mode = "emergency" THEN 50 ELSE 70))
            \div 100)

\* The most that rounding to 2 decimals moves a quantity, half a hundredth,
\* in 1/300 unit and rounded up.
RoundingStep == (Unit \div 200) + 1

\* C28 as stated: the quantities of the returned rows add up to required_qty,
\* every supplier row lies between its minimum order and its cap, and the
\* UNALLOCATED row is there exactly when the supplier rows add up to less.
C28_AsStated ==
    EngineReturned =>
        /\ SumAllocated(EngineOut) = Val(called_with).required_qty
        /\ \A i \in 1..Len(SupplierRows) :
              /\ SupplierRows[i].allocated_qty
                     >= RankedRowOf(SupplierRows[i]).min_order_qty
              /\ SupplierRows[i].allocated_qty <= StatedCap(SupplierRows[i])
        /\ Len(UnallocatedRows) = 1
               <=> SumAllocated(SupplierRows) < Val(called_with).required_qty
        /\ Len(UnallocatedRows) <= 1

\* C28: for a requirement that is not negative the same holds of the reported
\* quantities to within the rounding to 2 decimals of each row: the rows add
\* up to required_qty, a supplier row lies between its minimum order and its
\* cap, and there is an UNALLOCATED row, the last row, whenever the supplier
\* rows fall short by more than their rounding; it can report 0.0.
C28_ConservedWithinRounding ==
    EngineReturned =>
        LET req == Val(called_with).required_qty
        IN  /\ SumAllocated(EngineOut) - req
                   \in (0 - RoundingStep * Len(EngineOut))
                           ..(RoundingStep * Len(EngineOut))
            /\ \A i \in 1..Len(SupplierRows) :
                  /\ SupplierRows[i].allocated_qty
                         >= RankedRowOf(SupplierRows[i]).min_order_qty
                                - RoundingStep
                  /\ SupplierRows[i].allocated_qty
                         <= StatedCap(SupplierRows[i]) + RoundingStep
            /\ Len(UnallocatedRows) <= 1
            /\ Len(UnallocatedRows) = 1 =>
                  EngineOut[Len(EngineOut)].supplier_id = "UNALLOCATED"
            /\ SumAllocated(SupplierRows)
                   < req - RoundingStep * Len(SupplierRows)
                  => Len(UnallocatedRows) = 1
            /\ \A i \in 1..Len(UnallocatedRows) :
                  UnallocatedRows[i].allocated_qty >= 0

\* An emergency allocation over two suppliers: the first is held at half of
\* required_qty, the second gets its proposal, the rest is UNALLOCATED.
C28_Witness ==
    /\ EngineReturned
    /\ Val(called_with).mode = "emergency"
    /\ Val(called_with).required_qty = 100
    /\ Len(SupplierRows) = 2
    /\ SupplierRows[1].allocated_qty = 51
    /\ SupplierRows[2].allocated_qty = 33
    /\ Len(UnallocatedRows) = 1
    /\ UnallocatedRows[1].allocated_qty > 0

-----------------------------------------------------------------------------
(* Claims about what a pool can cover *)

\* n * max_share, in hundredths, for the pool optimize was given.
PoolShare == Len(suppliers_df) * StatedShare

\* C29 as stated: in any plan returned for a required_qty > 0 the ordered
\* quantities add up to n * max_share * required_qty at most, n being the
\* number of suppliers, and the residual shortage is
\* required_qty * (1 - n * max_share) at least: with one supplier 30% of
\* required_qty in normal mode and 50% in emergency mode.
C29_AsStated ==
    (AllocationReturned /\ required_qty > 0) =>
        /\ 100 * OrderedTotal(AllocationRows, Len(AllocationRows))
               <= PoolShare * required_qty
        /\ 100 * ResidualShortage >= (100 - PoolShare) * required_qty

\* C29: when the solve for a required_qty > 0 ends Optimal, the solver's
\* quantities add up to n * max_share * required_qty at most and its shortage
\* is required_qty * (1 - n * max_share) at least; in a returned plan, whose
\* quantities are rounded to 2 decimals, the ordered quantities exceed the
\* one by less than 0.005 a row and the residual shortage is below the other
\* by less than 0.005.
C29_PoolCoverage ==
    (Solved /\ solver.status = "Optimal" /\ required_qty > 0) =>
        /\ 100 * SumX(solver.x) <= PoolShare * required_qty
        /\ 100 * solver.shortage >= (100 - PoolShare) * required_qty
        /\ AllocationReturned =>
              /\ ResidualShortage = Round2(solver.shortage)
              /\ 2 * (100 * OrderedTotal(AllocationRows, Len(AllocationRows))
                         - PoolShare * required_qty)
                     < Unit * Len(AllocationRows)
              /\ 2 * ((100 - PoolShare) * required_qty
                         - 100 * ResidualShortage) < Unit

\* A plan over a single supplier, ordered its full share in normal mode:
\* 30% of required_qty stay unmet.
C29_Witness ==
    /\ AllocationReturned
    /\ solver.status = "Optimal"
    /\ required_qty > 0
    /\ Len(suppliers_df) = 1
    /\ config.mode # "emergency"
    /\ 100 * SumX(solver.x) = 70 * required_qty
    /\ 100 * solver.shortage = 30 * required_qty

-----------------------------------------------------------------------------
(* Claims about the life of an order *)

\* The orders of a list that are due by day d.
DueBy(orders, d) == SelectSeq(orders, LAMBDA x : x[1] <= d)

\* The date of the last simulated day.
LastDay == DateOf(Horizon - 1)

\* After a day on which an order was placed: the row's k is the lead time
\* rounded to a whole number of days, 0 at least; the arrival date is the
\* day plus k; and the order is the last one on order, not in on_hand.
PlacedOrderWaits ==
    PlacedToday =>
        LET k == row.lead_time_days
        IN  /\ k >= 0
            /\ RowLeadTime < 0 => k = 0
            /\ RowLeadTime >= 0 =>
                   10 * k - RowLeadTime \in (0 - 5)..5
            /\ row.order_arrival_ds = {row.ds + k}
            /\ LastOrder[1] = row.ds + k
            /\ LastOrder[2] > 0
            /\ placed_total >= received_total + LastOrder[2]

\* After any day, every order still on order arrives after that day, but for
\* the order placed on the day itself; at the end of the run what was placed
\* and not received is on order.
DueOrdersReceived ==
    t >= 1 =>
        /\ \A i \in DOMAIN on_order :
              \/ on_order[i][1] > row.ds
              \/ /\ PlacedToday
                 /\ i = Len(on_order)
                 /\ on_order[i][1] = row.ds
                 /\ row.lead_time_days = 0
        /\ pc = "done" =>
              /\ row.ds = LastDay
              /\ SumQty(on_order) = placed_total - received_total

\* A day's step receives the orders due by the day, those and no other:
\* an order arriving later stays on order, and the order placed in the step
\* is added to on_order and to nothing else.
ReceivedWhenDue ==
    t' = t + 1 =>
        LET d == row'.ds
        IN  /\ received_total' = received_total + SumQty(DueBy(on_order, d))
            /\ on_hand' <= Max(0, on_hand + SumQty(DueBy(on_order, d)))
            /\ \A i \in DOMAIN on_order :
                  on_order[i][1] > d =>
                      \E j \in DOMAIN on_order' : on_order'[j] = on_order[i]
            /\ SumQty(on_order') =
                   SumQty(on_order) - SumQty(DueBy(on_order, d))
                       + (placed_total' - placed_total)

\* C30: an order placed on day d is not part of on_hand on day d; it arrives
\* on d + k, k being the lead time rounded to an integer and 0 at least; it
\* is received on the first simulated day whose date is its arrival date or
\* later, which is the next simulated day when k = 0; an order that arrives
\* after the last simulated day is never received and is on order at the
\* end of the run.
C30_OrderLifecycle ==
    /\ [](pc \in {"simulate", "done"} => PlacedOrderWaits /\ DueOrdersReceived)
    /\ [][ReceivedWhenDue]_vars

\* The run has ended: an order was received on the way, and an order placed
\* with a lead time of 2 days or more arrives after the last day.
C30_Witness ==
    /\ pc = "done"
    /\ received_total > 0
    /\ on_order # <<>>
    /\ LastOrder[1] > LastDay + 1
    /\ SumQty(on_order) = placed_total - received_total

====
